---- MODULE Spec2Model ----
(***************************************************************************)
(* Generate-render-inspect-repair loop of scholar-share: the poster        *)
(* session (PosterGeneratorAgent), the presentation session                *)
(* (PresentationGeneratorAgent) and the two Layout Critics.                *)
(*                                                                         *)
(* Texts (LaTeX source, model responses) are sequences of tokens.  The     *)
(* tokens that the code looks for are kept apart: "bt" is one backtick,   *)
(* "latex" the word after a code fence, "dc" is \documentclass, "bd" is    *)
(* \begin{document}, "ed" is \end{document}, "mt" is \maketitle, "nl" and  *)
(* "sp" are whitespace; every other token is opaque text.                  *)
(***************************************************************************)
EXTENDS Integers, Sequences, FiniteSets, TLC

(* ---------------------------------------------------------------------- *)
(* Bounds of the model                                                     *)
(* ---------------------------------------------------------------------- *)
MaxFix == 2

MaxIter == 2

MaxSlides == 4

MaxRenders == 5

MaxLen == 4

MaxApplications == 2

(* ---------------------------------------------------------------------- *)
(* Text helpers: str.__contains__, str.replace(old, ""), str.strip,        *)
(* str.upper, str.lower                                                    *)
(* ---------------------------------------------------------------------- *)
MatchAt(s, p, i) ==
    /\ i + Len(p) - 1 <= Len(s)
    /\ \A k \in 1..Len(p) : s[i + k - 1] = p[k]

Contains(s, p) == \E i \in 1..Len(s) : MatchAt(s, p, i)

RECURSIVE RemoveFrom(_, _, _)
RemoveFrom(s, p, i) ==
    IF i > Len(s) THEN <<>>
    ELSE IF MatchAt(s, p, i) THEN RemoveFrom(s, p, i + Len(p))
    ELSE <<s[i]>> \o RemoveFrom(s, p, i + 1)

Remove(s, p) == RemoveFrom(s, p, 1)

IsSpace(t) == t \in {"nl", "sp"}

RECURSIVE LStrip(_)
LStrip(s) ==
    IF s = <<>> THEN <<>>
    ELSE IF IsSpace(Head(s)) THEN LStrip(Tail(s))
    ELSE s

RECURSIVE RStrip(_)
RStrip(s) ==
    IF s = <<>> THEN <<>>
    ELSE IF IsSpace(s[Len(s)]) THEN RStrip(SubSeq(s, 1, Len(s) - 1))
    ELSE s

Strip(s) == RStrip(LStrip(s))

(* str.upper and str.lower, word by word, over the words of the analysis
   answers in their three spellings; any other token has no cased letter *)
Words ==
    {<<"no", "No", "NO">>, <<"yes", "Yes", "YES">>,
     <<"fits properly", "Fits Properly", "FITS PROPERLY">>,
     <<"overflow", "Overflow", "OVERFLOW">>, <<"good", "Good", "GOOD">>,
     <<"poor", "Poor", "POOR">>, <<"thing", "Thing", "THING">>,
     <<"fair", "Fair", "FAIR">>, <<"cramped", "Cramped", "CRAMPED">>}

Spellings(t) == {w \in Words : \E k \in 1..3 : w[k] = t}

UpperTok(t) ==
    IF Spellings(t) = {} THEN t ELSE (CHOOSE w \in Spellings(t) : TRUE)[3]

Upper(s) == [i \in 1..Len(s) |-> UpperTok(s[i])]

LowerTok(t) ==
    IF Spellings(t) = {} THEN t ELSE (CHOOSE w \in Spellings(t) : TRUE)[1]

Lower(s) == [i \in 1..Len(s) |-> LowerTok(s[i])]

FenceLatex == <<"bt", "bt", "bt", "latex">>

Fence == <<"bt", "bt", "bt">>

StripFences(s) == Remove(Remove(s, FenceLatex), Fence)

(* ---------------------------------------------------------------------- *)
(* Optional[str] and truthiness                                            *)
(* ---------------------------------------------------------------------- *)
None == [none |-> TRUE, text |-> <<>>]

Some(t) == [none |-> FALSE, text |-> t]

Truthy(o) == ~o.none /\ o.text # <<>>

NonePath == "None"

TruthyPath(p) == p # NonePath /\ p # ""

(* ---------------------------------------------------------------------- *)
(* Document Assembler normalisation                                        *)
(* ---------------------------------------------------------------------- *)
(* a normalisation that prepends the document class without looking *)
PosterAddClass_always(s) == <<"dc", "tikzposter", "nl">> \o s

PosterAddClass(s) ==
    IF ~Contains(s, <<"dc">>) THEN <<"dc", "tikzposter", "nl">> \o s ELSE s

PosterAddBegin(s) ==
    IF ~Contains(s, <<"bd">>) THEN s \o <<"nl", "bd", "nl", "mt", "nl", "ed">> ELSE s

(* a normalisation that hands the text on as it came *)
Poster_clean_latex_code_raw(latex_code) == latex_code

Poster_clean_latex_code(latex_code) ==
    Strip(PosterAddBegin(PosterAddClass(StripFences(latex_code))))

PresAddClass(s) ==
    IF ~Contains(s, <<"dc">>) THEN <<"dc", "beamer", "nl">> \o s ELSE s

PresAddBegin(s) ==
    IF ~Contains(s, <<"bd">>) THEN s \o <<"nl", "bd", "nl", "ed">> ELSE s

Pres_clean_latex_code(latex_code) ==
    Strip(PresAddBegin(PresAddClass(StripFences(latex_code))))

(* ---------------------------------------------------------------------- *)
(* Completion Capability: LLMService.get_client / generate_completion      *)
(* A call takes the state of the API key and what the provider answers.    *)
(* ---------------------------------------------------------------------- *)
Returned(t) == [raised |-> FALSE, text |-> t]

Raised(t) == [raised |-> TRUE, text |-> t]

get_client(api_key_set) ==
    IF ~api_key_set THEN Raised(<<"API key not configured">>)
    ELSE Returned(<<"client">>)

generate_completion(api_key_set, provider) ==
    IF get_client(api_key_set).raised THEN get_client(api_key_set)
    ELSE IF provider.kind = "content" THEN Returned(provider.text)
    ELSE Raised(<<"LLM generation failed">>)

ProviderAnswers(texts) ==
    {[kind |-> "content", text |-> t] : t \in texts}
        \cup {[kind |-> "none_content", text |-> <<>>],
              [kind |-> "provider_error", text |-> <<>>]}

CompletionInputs(texts) ==
    {[key |-> TRUE, provider |-> a] : a \in ProviderAnswers(texts)}
        \cup {[key |-> FALSE, provider |-> [kind |-> "provider_error", text |-> <<>>]]}

(* ---------------------------------------------------------------------- *)
(* Layout Critic, poster variant                                           *)
(* ---------------------------------------------------------------------- *)
image_to_base64(image_exists, read_ok) ==
    IF ~image_exists THEN None
    ELSE IF ~read_ok THEN None
    ELSE Some(<<"base64">>)

(* a verdict rule that looks for the phrase whatever its case *)
Poster_needs_fixing_any_case(analysis_response) ==
    /\ Contains(Upper(analysis_response), <<"NO">>)
    /\ Contains(Upper(analysis_response), <<"FITS PROPERLY">>)

Poster_needs_fixing(analysis_response) ==
    /\ Contains(Upper(analysis_response), <<"NO">>)
    /\ Contains(analysis_response, <<"fits properly">>)

generate_fixed_latex(completion) ==
    IF completion.raised THEN completion
    ELSE Returned(Strip(StripFences(completion.text)))

InspectionResult(fits, msg, fixed, nAnalysis, nRepair, step) ==
    [fits |-> fits, message |-> msg, fixed |-> fixed,
     analysis_calls |-> nAnalysis, repair_calls |-> nRepair, failed |-> step]

(* an except clause that reports the poster as fitting *)
Poster_critic_except_optimistic(e, nAnalysis, nRepair, step) ==
    InspectionResult(TRUE, <<"Error analyzing poster layout">> \o e, None,
                     nAnalysis, nRepair, step)

Poster_critic_except(e, nAnalysis, nRepair, step) ==
    InspectionResult(FALSE, <<"Error analyzing poster layout">> \o e, None,
                     nAnalysis, nRepair, step)

(* a critic that asks for the repair before looking at the verdict *)
analyze_poster_layout_eager(image_exists, read_ok, a, r) ==
    LET image_base64 == image_to_base64(image_exists, read_ok)
        analysis == generate_completion(a.key, a.provider)
        needs_fixing == Poster_needs_fixing(analysis.text)
        fixed == generate_fixed_latex(generate_completion(r.key, r.provider))
    IN  IF ~Truthy(image_base64)
        THEN InspectionResult(FALSE, <<"Could not process poster image">>, None, 0, 0, "encode")
        ELSE IF analysis.raised
        THEN Poster_critic_except(analysis.text, 1, 0, "analysis")
        ELSE IF fixed.raised
        THEN Poster_critic_except(fixed.text, 1, 1, "repair")
        ELSE InspectionResult(~needs_fixing, analysis.text, Some(fixed.text), 1, 1, "none")

analyze_poster_layout(image_exists, read_ok, a, r) ==
    LET image_base64 == image_to_base64(image_exists, read_ok)
        analysis == generate_completion(a.key, a.provider)
        needs_fixing == Poster_needs_fixing(analysis.text)
        fixed == generate_fixed_latex(generate_completion(r.key, r.provider))
    IN  IF ~Truthy(image_base64)
        THEN InspectionResult(FALSE, <<"Could not process poster image">>, None, 0, 0, "encode")
        ELSE IF analysis.raised
        THEN Poster_critic_except(analysis.text, 1, 0, "analysis")
        ELSE IF needs_fixing
        THEN IF fixed.raised
             THEN Poster_critic_except(fixed.text, 1, 1, "repair")
             ELSE InspectionResult(~needs_fixing, analysis.text, Some(fixed.text), 1, 1, "none")
        ELSE InspectionResult(~needs_fixing, analysis.text, None, 1, 0, "none")

(* ---------------------------------------------------------------------- *)
(* Layout Critic, presentation variant                                     *)
(* ---------------------------------------------------------------------- *)
ImprovementKeywords ==
    {"poor", "fair", "cramped", "overflow", "cut-off", "overlapping",
     "unreadable", "too small", "needs improvement", "regenerate"}

Pres_needs_improvement(analysis_response) ==
    \E keyword \in ImprovementKeywords : Contains(Lower(analysis_response), <<keyword>>)

generate_layout_fixes(completion) ==
    IF completion.raised THEN completion
    ELSE Returned(Strip(StripFences(completion.text)))

Pres_critic_except(e, nAnalysis, nRepair, step) ==
    InspectionResult(FALSE, <<"Error analyzing presentation layout">> \o e, None,
                     nAnalysis, nRepair, step)

analyze_presentation_layout(image_exists, read_ok, a, r) ==
    LET image_base64 == image_to_base64(image_exists, read_ok)
        analysis == generate_completion(a.key, a.provider)
        needs_improvement == Pres_needs_improvement(analysis.text)
        fixed == generate_layout_fixes(generate_completion(r.key, r.provider))
    IN  IF ~Truthy(image_base64)
        THEN InspectionResult(FALSE, <<"Could not process presentation image">>, None, 0, 0, "encode")
        ELSE IF analysis.raised
        THEN Pres_critic_except(analysis.text, 1, 0, "analysis")
        ELSE IF needs_improvement
        THEN IF fixed.raised
             THEN Pres_critic_except(fixed.text, 1, 1, "repair")
             ELSE InspectionResult(~needs_improvement, analysis.text, Some(fixed.text), 1, 1, "none")
        ELSE InspectionResult(~needs_improvement, analysis.text, None, 1, 0, "none")

(* ---------------------------------------------------------------------- *)
(* Texts the Completion Capability answers with in a session               *)
(* ---------------------------------------------------------------------- *)
DraftPlain == <<"dc", "tikzposter", "nl", "bd", "draft", "ed">>

DraftFenced == <<"bt", "bt", "bt", "latex", "nl", "body", "nl", "bt", "bt", "bt">>

Drafts == {DraftPlain, DraftFenced}

AnalysisFit == <<"yes", "fits properly">>

AnalysisUnfit == <<"NO", "fits properly">>

AnalysisTexts == {AnalysisFit, AnalysisUnfit}

RepairA == <<"dc", "tikzposter", "nl", "bd", "fixA", "ed">>

RepairB == <<"fixB">>

RepairEmpty == <<>>

RepairTexts == {RepairA, RepairB, RepairEmpty}

PresAnalysisGood == <<"Good">>

PresAnalysisPoor == <<"Poor", "OVERFLOW">>

PresAnalysisTexts == {PresAnalysisGood, PresAnalysisPoor}

(* ---------------------------------------------------------------------- *)
(* Files under outputs/: what each holds and what it was made from         *)
(* ---------------------------------------------------------------------- *)
PosterPdf == "outputs/posters/T_poster.pdf"

PosterHtml == "outputs/posters/T_poster.html"

PosterFailed == "outputs/posters/poster_generation_failed.txt"

PosterImage == "outputs/posters/T_poster_image.png"

PosterFailedImage == "outputs/posters/poster_generation_failed_image.png"

PresPdf == "outputs/presentations/T_presentation.pdf"

(* f"{pdf_name}_slide_{page_number}.png" next to the PDF *)
PresSlideImage(page_number) ==
    "outputs/presentations/T_presentation_slide_" \o ToString(page_number) \o ".png"

(* the pages a deck of the sessions can have *)
SlidePages == 1..9

Paths ==
    {PosterPdf, PosterHtml, PosterFailed, PosterImage, PosterFailedImage, PresPdf}
        \cup {PresSlideImage(n) : n \in SlidePages}

Absent == [exists |-> FALSE, doc |-> <<>>, from |-> ""]

FileOf(doc, from) == [exists |-> TRUE, doc |-> doc, from |-> from]

Exists(fs, path) == path \in Paths /\ fs[path].exists

(* ---------------------------------------------------------------------- *)
(* Render Capability, poster variant                                       *)
(* ---------------------------------------------------------------------- *)
CompileOutcomes ==
    {[pdflatex |-> "pdf", fallback |-> "written"],
     [pdflatex |-> "no_pdf", fallback |-> "written"],
     [pdflatex |-> "no_pdf", fallback |-> "error"],
     [pdflatex |-> "error", fallback |-> "written"],
     [pdflatex |-> "error", fallback |-> "error"]}

Poster_generate_fallback_poster(fs, latex_code, o) ==
    IF o.fallback = "written"
    THEN [path |-> PosterHtml,
          files |-> [fs EXCEPT ![PosterHtml] = FileOf(latex_code, "")]]
    ELSE [path |-> PosterFailed, files |-> fs]

Poster_compile_latex(fs, latex_code, o) ==
    IF o.pdflatex = "pdf"
    THEN [path |-> PosterPdf,
          files |-> [fs EXCEPT ![PosterPdf] = FileOf(latex_code, "")]]
    ELSE Poster_generate_fallback_poster(fs, latex_code, o)

PosterImagePathOf(pdf_path) ==
    IF pdf_path = PosterFailed THEN PosterFailedImage ELSE PosterImage

convert_pdf_to_image(fs, pdf_path, conv_ok) ==
    IF ~Exists(fs, pdf_path) THEN [path |-> NonePath, files |-> fs]
    ELSE IF conv_ok
    THEN [path |-> PosterImagePathOf(pdf_path),
          files |-> [fs EXCEPT ![PosterImagePathOf(pdf_path)] =
                                    FileOf(fs[pdf_path].doc, pdf_path)]]
    ELSE [path |-> NonePath, files |-> fs]

(* ---------------------------------------------------------------------- *)
(* State                                                                   *)
(* ---------------------------------------------------------------------- *)
VARIABLES
    kind,                    \* "poster" or "presentation": which agent runs
    pc,                      \* position of the running coroutine
    max_fix_attempts,        \* PosterGeneratorAgent.max_fix_attempts
    max_iterations,          \* PresentationGeneratorAgent.max_iterations
    total_slides,            \* plan.total_slides
    current_latex,           \* local current_latex of the session
    attempt,                 \* local attempt (poster) / iteration (presentation)
    pdf_path,                \* local pdf_path
    image_path,              \* local poster_image_path / slide_image_path
    page_num,                \* loop variable of the slide loop
    all_analyses,            \* local all_analyses
    improvement_suggestions, \* local improvement_suggestions
    slides_analyzed,         \* local slides_analyzed
    files,                   \* the outputs/ directory
    result,                  \* the pair the session returned
    exit_line,               \* source line of the return statement taken
    last_inspection,         \* what the most recent Layout Critic call returned
    trail,                   \* one RepairAttempt per compile call
    fn,                      \* a single function under test: its inputs and outputs
    settings,                \* app.config.settings.settings and what its consumers read
    social,                  \* one generate_all_social_images call: its four tasks
    sessions,                \* two poster sessions of one process, side by side
    pending,                 \* the Layout Critic call in flight: what it has read and been answered
    descriptions,            \* plan.suggested_diagrams still to be drawn
    templates                \* create_template_variants: the templates still to be generated

vars ==
    <<kind, pc, max_fix_attempts, max_iterations, total_slides, current_latex,
      attempt, pdf_path, image_path, page_num, all_analyses,
      improvement_suggestions, slides_analyzed, files, result, exit_line,
      last_inspection, trail, fn, settings, social, sessions, pending, descriptions, templates>>

presLocals == <<page_num, all_analyses, improvement_suggestions, slides_analyzed>>

(* the agent as constructed, and the services beside it *)
agent == <<kind, max_fix_attempts, max_iterations, fn, settings, social, sessions>>

config == <<agent, templates>>

(* the plan process() holds once the planner has answered *)
planned == <<total_slides, descriptions>>

(* create_template_variants: templates = ["academic", "corporate", "minimal"] *)
Templates == <<"academic", "corporate", "minimal">>

(* process(): max_slides: int = 15 *)
DefaultMaxSlides == 15

NoInspection == InspectionResult(FALSE, <<>>, None, 0, 0, "none")

NotReturned == [returned |-> FALSE, artifact |-> NonePath, document |-> <<>>]

RepairAttempt(index, document, artifact) ==
    [attempt_index |-> index, document |-> document, artifact |-> artifact,
     raster |-> "none", inspected |-> FALSE, inspection |-> NoInspection]

NoCompletionInput == [key |-> FALSE, provider |-> [kind |-> "provider_error", text |-> <<>>]]

(* a completion asked for with the key configured, and the provider's answer *)
Answered(provider) == [key |-> TRUE, provider |-> provider]

(* no Layout Critic call is in flight *)
NoPending == [image_exists |-> FALSE, read_ok |-> FALSE, a |-> NoCompletionInput]

FnIdle ==
    [op |-> "none", input |-> <<>>, outs |-> <<>>, image_exists |-> FALSE,
     read_ok |-> FALSE, a |-> NoCompletionInput, r |-> NoCompletionInput,
     inspection |-> NoInspection, done |-> FALSE,
     stage |-> "entry", asked |-> 0,
     pdf_exists |-> FALSE, page_numbers |-> <<>>, conv_ok |-> <<>>,
     results |-> <<>>, written |-> {}]

SettingKeys ==
    {"HEAVY_MODEL_API_KEY", "LIGHT_MODEL_API_KEY", "CODING_MODEL_API_KEY", "DEVTO_API_KEY"}

(* no handler of the configuration tab has run *)
NoHandler == [name |-> "none", raised_line |-> 0]

NoOverride == [set |-> FALSE, value |-> ""]

NoCredential == [consumer |-> "none", key |-> "", value |-> "", raised |-> FALSE]

(* Settings.__init__ with nothing in the environment *)
SettingsOf(defaults) ==
    [defaults |-> defaults,
     runtime_overrides |-> [k \in SettingKeys |-> NoOverride],
     devto_api_key |-> defaults["DEVTO_API_KEY"],
     used |-> NoCredential,
     handler |-> NoHandler]

SettingsIdle == SettingsOf([k \in SettingKeys |-> ""])

SocialIdle == <<>>

SessionsIdle == <<>>

(* what a session does not touch *)
ServicesIdle ==
    /\ settings = SettingsIdle
    /\ social = SocialIdle
    /\ sessions = SessionsIdle

(* the locals of a session that has not begun *)
SessionIdle ==
    /\ pc = "start"
    /\ current_latex = <<>>
    /\ attempt = 0
    /\ pdf_path = NonePath
    /\ image_path = NonePath
    /\ page_num = 0
    /\ all_analyses = <<>>
    /\ improvement_suggestions = <<>>
    /\ slides_analyzed = 0
    /\ files = [p \in Paths |-> Absent]
    /\ result = NotReturned
    /\ exit_line = 0
    /\ last_inspection = NoInspection
    /\ trail = <<>>
    /\ total_slides = 0
    /\ pending = NoPending
    /\ descriptions = 0

Init ==
    /\ kind \in {"poster", "presentation"}
    /\ max_fix_attempts \in 0..MaxFix
    /\ max_iterations \in 0..MaxIter
    /\ kind = "poster" => max_iterations = 1
    /\ kind = "presentation" => max_fix_attempts = 2
    /\ SessionIdle
    /\ templates \in {<<>>, Templates}
    /\ kind = "poster" => templates = <<>>
    /\ templates # <<>> => max_iterations = 1
    /\ fn = FnIdle
    /\ ServicesIdle

(* return pdf_path, current_latex *)
Return(path, document, line) ==
    /\ pc' = "done"
    /\ result' = [returned |-> TRUE, artifact |-> path, document |-> document]
    /\ exit_line' = line

(* an exception leaves the coroutine *)
Raise(line) ==
    /\ pc' = "raised"
    /\ exit_line' = line
    /\ UNCHANGED result

SetLast(t, field, value) == [t EXCEPT ![Len(t)][field] = value]

(* ---------------------------------------------------------------------- *)
(* Repair Loop Controller, poster variant                                  *)
(* ---------------------------------------------------------------------- *)
(* the loop test with the budget off by one *)
Poster_loop_continues_strict(a, max) == a < max

Poster_loop_continues(a, max) == a <= max

(* the fix test without its budget bound being strict *)
Poster_apply_fix_inclusive(fixed_latex, a, max) == Truthy(fixed_latex) /\ a <= max

(* the fix test without its check that a fix was supplied *)
Poster_apply_fix_unchecked(fixed_latex, a, max) == a < max

Poster_apply_fix(fixed_latex, a, max) == Truthy(fixed_latex) /\ a < max

(* an adoption that skips an attempt index *)
Poster_next_attempt_double(a) == a + 2

(* the adoption without its increment *)
Poster_next_attempt_stuck(a) == a

Poster_next_attempt(a) == a + 1

(* the session without its check of the rasterization result *)
Poster_image_missing_ignored(poster_image_path) == FALSE

Poster_image_missing(poster_image_path) == ~TruthyPath(poster_image_path)

(* process(): first draft, normalisation, entry of the session *)
PosterProcess ==
    /\ kind = "poster"
    /\ pc = "start"
    /\ \E g \in CompletionInputs(Drafts) :
         LET latex_code == generate_completion(g.key, g.provider)
         IN  IF latex_code.raised
             THEN /\ Raise(79)
                  /\ UNCHANGED current_latex
             ELSE /\ current_latex' = Poster_clean_latex_code(latex_code.text)
                  /\ IF Poster_loop_continues(0, max_fix_attempts)
                     THEN pc' = "compile" /\ UNCHANGED <<result, exit_line>>
                     ELSE Raise(268)
    /\ attempt' = 0
    /\ UNCHANGED <<config, planned, pending, pdf_path, image_path, presLocals, files, last_inspection, trail>>

(* pdf_path = await self._compile_latex(current_latex, title) *)
PosterCompile ==
    /\ kind = "poster"
    /\ pc = "compile"
    /\ Len(trail) < MaxRenders
    /\ \E o \in CompileOutcomes :
         LET c == Poster_compile_latex(files, current_latex, o)
         IN  /\ pdf_path' = c.path
             /\ files' = c.files
             /\ trail' = Append(trail, RepairAttempt(attempt, current_latex, c.path))
             /\ IF ~TruthyPath(c.path)
                THEN Return(c.path, current_latex, 268)
                ELSE pc' = "rasterize" /\ UNCHANGED <<result, exit_line>>
    /\ UNCHANGED <<config, planned, pending, current_latex, attempt, image_path, presLocals, last_inspection>>

(* poster_image_path = await pdf_to_image_service.convert_pdf_to_image(..) *)
PosterRasterize ==
    /\ kind = "poster"
    /\ pc = "rasterize"
    /\ \E conv_ok \in BOOLEAN :
         LET r == convert_pdf_to_image(files, pdf_path, conv_ok)
         IN  /\ image_path' = r.path
             /\ files' = r.files
             /\ trail' = SetLast(trail, "raster",
                                 IF r.path = NonePath THEN "failed" ELSE "ok")
             /\ IF Poster_image_missing(r.path)
                THEN Return(pdf_path, current_latex, 238)
                ELSE pc' = "inspect" /\ UNCHANGED <<result, exit_line>>
    /\ UNCHANGED <<config, planned, pending, current_latex, attempt, pdf_path, presLocals, last_inspection>>

(* the critic asks for the analysis completion unless it has returned before *)
Poster_analysis_asked(image_exists, read_ok) ==
    analyze_poster_layout(image_exists, read_ok,
                          NoCompletionInput, NoCompletionInput).analysis_calls > 0

(* the critic asks for the repair completion once the analysis has answered a *)
Poster_repair_asked(p, a) ==
    analyze_poster_layout(p.image_exists, p.read_ok, a, NoCompletionInput).repair_calls > 0

(* the critic has returned i: what follows the await in the session *)
PosterDecide(i) ==
    /\ trail' = [SetLast(trail, "inspection", i) EXCEPT ![Len(trail)].inspected = TRUE]
    /\ last_inspection' = i
    /\ pending' = NoPending
    /\ IF i.fits
       THEN /\ Return(pdf_path, current_latex, 255)
            /\ UNCHANGED <<current_latex, attempt>>
       ELSE IF Poster_apply_fix(i.fixed, attempt, max_fix_attempts)
       THEN /\ current_latex' = Poster_clean_latex_code(i.fixed.text)
            /\ attempt' = Poster_next_attempt(attempt)
            /\ IF Poster_loop_continues(attempt', max_fix_attempts)
               THEN pc' = "compile" /\ UNCHANGED <<result, exit_line>>
               ELSE Return(pdf_path, current_latex', 268)
       ELSE /\ Return(pdf_path, current_latex, 265)
            /\ UNCHANGED <<current_latex, attempt>>

(* the critic is suspended at client.chat.completions.create: the session
   keeps its locals until the provider answers *)
PosterSuspend(at, p) ==
    /\ pc' = at
    /\ pending' = p
    /\ UNCHANGED <<current_latex, attempt, result, exit_line, last_inspection, trail>>

(* analyze_poster_layout is entered: the bitmap is read and the analysis
   asked for; without a key get_client raises before anything is awaited *)
PosterInspect ==
    /\ kind = "poster"
    /\ pc = "inspect"
    /\ \E read_ok \in BOOLEAN, key \in BOOLEAN :
         LET image_exists == Exists(files, image_path)
             i == analyze_poster_layout(image_exists, read_ok,
                                        NoCompletionInput, NoCompletionInput)
         IN  IF Poster_analysis_asked(image_exists, read_ok) /\ key
             THEN PosterSuspend("analysis",
                                [NoPending EXCEPT !.image_exists = image_exists,
                                                  !.read_ok = read_ok])
             ELSE PosterDecide(i)
    /\ UNCHANGED <<config, planned, pdf_path, image_path, presLocals, files>>

(* the analysis completion answers: the verdict, and the repair asked for if unfit *)
PosterVerdict ==
    /\ kind = "poster"
    /\ pc = "analysis"
    /\ \E answer \in ProviderAnswers(AnalysisTexts), key \in BOOLEAN :
         LET a == Answered(answer)
             i == analyze_poster_layout(pending.image_exists, pending.read_ok,
                                        a, NoCompletionInput)
         IN  IF Poster_repair_asked(pending, a) /\ key
             THEN PosterSuspend("repair", [pending EXCEPT !.a = a])
             ELSE PosterDecide(i)
    /\ UNCHANGED <<config, planned, pdf_path, image_path, presLocals, files>>

(* the repair completion answers: the critic returns its triple *)
PosterRepair ==
    /\ kind = "poster"
    /\ pc = "repair"
    /\ \E answer \in ProviderAnswers(RepairTexts) :
         LET i == analyze_poster_layout(pending.image_exists, pending.read_ok,
                                        pending.a, Answered(answer))
         IN  PosterDecide(i)
    /\ UNCHANGED <<config, planned, pdf_path, image_path, presLocals, files>>

PosterNext ==
    \/ PosterProcess
    \/ PosterCompile
    \/ PosterRasterize
    \/ PosterInspect
    \/ PosterVerdict
    \/ PosterRepair

(* ---------------------------------------------------------------------- *)
(* Render Capability, presentation variant                                 *)
(* ---------------------------------------------------------------------- *)
PresCompileOutcomes == {"pdf", "no_pdf", "error"}

Pres_compile_latex(fs, latex_code, o) ==
    IF o = "pdf"
    THEN [path |-> PresPdf, files |-> [fs EXCEPT ![PresPdf] = FileOf(latex_code, "")]]
    ELSE [path |-> NonePath, files |-> fs]

Pres_convert_pdf_to_image(fs, path, page_number, conv_ok) ==
    IF ~Exists(fs, path) THEN [path |-> NonePath, files |-> fs]
    ELSE IF conv_ok
    THEN [path |-> PresSlideImage(page_number),
          files |-> [fs EXCEPT ![PresSlideImage(page_number)] =
                                    FileOf(fs[path].doc, path)]]
    ELSE [path |-> NonePath, files |-> fs]

(* PresentationPDFToImageService.convert_multiple_pages: the pages in the
   order given, conv_ok[k] telling whether the k-th conversion succeeds;
   results maps each page number to the path of its last conversion *)
RECURSIVE convert_multiple_pages(_, _, _, _)
convert_multiple_pages(fs, path, page_numbers, conv_ok) ==
    IF page_numbers = <<>> THEN [results |-> <<>>, files |-> fs]
    ELSE LET n == Len(page_numbers)
             before == convert_multiple_pages(fs, path, SubSeq(page_numbers, 1, n - 1),
                                              conv_ok)
             c == Pres_convert_pdf_to_image(before.files, path, page_numbers[n], conv_ok[n])
         IN  [results |-> (page_numbers[n] :> c.path) @@ before.results,
              files |-> c.files]

(* ---------------------------------------------------------------------- *)
(* Repair Loop Controller, presentation variant                            *)
(* ---------------------------------------------------------------------- *)
Max(a, b) == IF a >= b THEN a ELSE b

Min(a, b) == IF a <= b THEN a ELSE b

pages_to_analyze(total) ==
    LET p == Max(1, total \div 2)
    IN  IF p < total \div 2 THEN total \div 2 + 1 ELSE p

LastPage(total) == Min(pages_to_analyze(total) + 1, total + 1) - 1

Pres_loop_continues(iteration, max) == iteration < max

Pres_apply_fix(suggestions, iteration, max) == suggestions # <<>> /\ iteration < max - 1

good_slides(analyses) == Cardinality({k \in 1..Len(analyses) : analyses[k].is_good})

(* a threshold that accepts a deck only when every sampled slide is good *)
Pres_quality_ok_unanimous(good, analyzed) == good = analyzed

(* quality_ratio >= quality_threshold, with quality_threshold = 0.7 *)
Pres_quality_ok(good, analyzed) == 10 * good >= 7 * analyzed

(* a test that never finds the cycle without an analysed slide *)
Pres_none_analyzed_never(analyzed) == FALSE

(* if slides_analyzed == 0 *)
Pres_none_analyzed(analyzed) == analyzed = 0

(* what follows the slide loop, in the same step as its last iteration *)
PresAggregate(analyses, suggestions, analyzed) ==
    IF Pres_none_analyzed(analyzed)
    THEN /\ Return(pdf_path, current_latex, 300)
         /\ UNCHANGED <<current_latex, attempt>>
    ELSE IF Pres_quality_ok(good_slides(analyses), analyzed)
    THEN /\ Return(pdf_path, current_latex, 313)
         /\ UNCHANGED <<current_latex, attempt>>
    ELSE IF Pres_apply_fix(suggestions, attempt, max_iterations)
    THEN /\ current_latex' = Pres_clean_latex_code(suggestions[Len(suggestions)])
         /\ attempt' = attempt + 1
         /\ IF Pres_loop_continues(attempt', max_iterations)
            THEN pc' = "compile" /\ UNCHANGED <<result, exit_line>>
            ELSE Return(pdf_path, current_latex', 325)
    ELSE /\ Return(pdf_path, current_latex, 323)
         /\ UNCHANGED <<current_latex, attempt>>

(* end of one iteration of the slide loop *)
PresAfterPage(analyses, suggestions, analyzed) ==
    /\ all_analyses' = analyses
    /\ improvement_suggestions' = suggestions
    /\ slides_analyzed' = analyzed
    /\ IF page_num < LastPage(total_slides)
       THEN /\ page_num' = page_num + 1
            /\ pc' = "rasterize"
            /\ UNCHANGED <<current_latex, attempt, result, exit_line>>
       ELSE /\ PresAggregate(analyses, suggestions, analyzed)
            /\ UNCHANGED page_num

(* what the planner completion answers: whether a plan can be parsed out of
   it, whether the plan names total_slides, and the diagrams it suggests *)
PlanText(parses, names_total, total, diagrams) ==
    [parses |-> parses, names_total |-> names_total,
     total_slides |-> total, suggested_diagrams |-> diagrams]

(* PresentationPlannerAgent._create_fallback_plan: eight slides, two diagrams *)
create_fallback_plan == [total_slides |-> 8, suggested_diagrams |-> 2]

(* PresentationPlannerAgent.process after its completion has answered *)
planner_process(response, max_slides) ==
    IF response.parses
    THEN [total_slides |-> IF response.names_total THEN response.total_slides
                           ELSE max_slides,
          suggested_diagrams |-> response.suggested_diagrams]
    ELSE create_fallback_plan

(* answers of the planner for short decks, and the max_slides asked for *)
PlanTexts ==
    {PlanText(TRUE, TRUE, n, d) : n \in 0..MaxSlides, d \in 0..1}
        \cup {PlanText(TRUE, FALSE, 0, 0)}

PlanRequests == 1..MaxSlides

TikzTexts == {<<"tikz">>}

(* process() up to the planner's answer, for the answers and requests given;
   no local of _compile_and_analyze_presentation is bound yet *)
PresPlan(answers, requests) ==
    /\ kind = "presentation"
    /\ \E g \in CompletionInputs(answers), max_slides \in requests :
         LET response == generate_completion(g.key, g.provider)
             plan == planner_process(response.text, max_slides)
         IN  IF response.raised
             THEN /\ Raise(36)
                  /\ UNCHANGED planned
             ELSE /\ total_slides' = plan.total_slides
                  /\ descriptions' = plan.suggested_diagrams
                  /\ pc' = IF plan.suggested_diagrams > 0 THEN "diagrams" ELSE "draft"
                  /\ UNCHANGED <<result, exit_line>>
    /\ current_latex' = <<>>
    /\ attempt' = 0
    /\ image_path' = NonePath
    /\ page_num' = 0
    /\ all_analyses' = <<>>
    /\ improvement_suggestions' = <<>>
    /\ slides_analyzed' = 0
    /\ last_inspection' = NoInspection
    /\ trail' = <<>>
    /\ UNCHANGED <<agent, pending, pdf_path, files>>

(* answers of the planner to create_template_variants: the plans that name
   total_slides, with and without a diagram. max_slides is handed to the
   planner and decides only for a plan that names no total; such a plan
   makes a deck of fifteen slides, longer than the decks followed here. *)
VariantPlanTexts == {PlanText(TRUE, TRUE, n, d) : n \in 0..MaxSlides, d \in 0..1}

(* process(analysis, template_type, max_slides) called by the interface:
   plan = await self.planner.process(analysis, max_slides) *)
PresProcess ==
    /\ pc = "start"
    /\ templates = <<>>
    /\ PresPlan(PlanTexts, PlanRequests)
    /\ UNCHANGED templates

(* create_template_variants: the next template's
   presentation = await self.process(analysis, template_type=template),
   with max_slides at its default, up to the planner's answer; result holds
   the presentation the call before returned, files what it wrote *)
PresVariant ==
    /\ pc \in {"start", "done"}
    /\ templates # <<>>
    /\ PresPlan(VariantPlanTexts, {DefaultMaxSlides})
    /\ templates' = Tail(templates)

(* TikzDiagramGeneratorAgent.process: one completion for each description *)
PresDiagram ==
    /\ kind = "presentation"
    /\ pc = "diagrams"
    /\ \E g \in CompletionInputs(TikzTexts) :
         IF generate_completion(g.key, g.provider).raised
         THEN /\ Raise(42)
              /\ UNCHANGED descriptions
         ELSE /\ descriptions' = descriptions - 1
              /\ pc' = IF descriptions' > 0 THEN "diagrams" ELSE "draft"
              /\ UNCHANGED <<result, exit_line>>
    /\ UNCHANGED <<config, total_slides, pending, current_latex, attempt, pdf_path,
                   image_path, presLocals, files, last_inspection, trail>>

(* process(): the Beamer draft, its normalisation, entry of the session *)
PresDraft ==
    /\ kind = "presentation"
    /\ pc = "draft"
    /\ \E g \in CompletionInputs(Drafts) :
         LET latex_code == generate_completion(g.key, g.provider)
         IN  IF latex_code.raised
             THEN /\ Raise(49)
                  /\ UNCHANGED current_latex
             ELSE /\ current_latex' = Pres_clean_latex_code(latex_code.text)
                  /\ IF Pres_loop_continues(0, max_iterations)
                     THEN pc' = "compile" /\ UNCHANGED <<result, exit_line>>
                     ELSE Raise(325)
    /\ attempt' = 0
    /\ UNCHANGED <<config, planned, pending, pdf_path, image_path, presLocals, files,
                   last_inspection, trail>>

(* pdf_path = await self._compile_latex(current_latex, title) *)
PresCompile ==
    /\ kind = "presentation"
    /\ pc = "compile"
    /\ Len(trail) < MaxRenders
    /\ \E o \in PresCompileOutcomes :
         LET c == Pres_compile_latex(files, current_latex, o)
         IN  /\ pdf_path' = c.path
             /\ files' = c.files
             /\ trail' = Append(trail, RepairAttempt(attempt, current_latex, c.path))
             /\ IF ~TruthyPath(c.path)
                THEN /\ Return(c.path, current_latex, 325)
                     /\ UNCHANGED <<presLocals, current_latex, attempt>>
                ELSE IF LastPage(total_slides) < 1
                THEN /\ all_analyses' = <<>>
                     /\ improvement_suggestions' = <<>>
                     /\ slides_analyzed' = 0
                     /\ UNCHANGED page_num
                     /\ Return(c.path, current_latex, 300)
                     /\ UNCHANGED <<current_latex, attempt>>
                ELSE /\ all_analyses' = <<>>
                     /\ improvement_suggestions' = <<>>
                     /\ slides_analyzed' = 0
                     /\ page_num' = 1
                     /\ pc' = "rasterize"
                     /\ UNCHANGED <<result, exit_line, current_latex, attempt>>
    /\ UNCHANGED <<config, planned, pending, image_path, last_inspection>>

(* slide_image_path = await ..convert_pdf_to_image(pdf_path, page_number=page_num) *)
PresRasterize ==
    /\ kind = "presentation"
    /\ pc = "rasterize"
    /\ \E conv_ok \in BOOLEAN :
         LET r == Pres_convert_pdf_to_image(files, pdf_path, page_num, conv_ok)
         IN  /\ image_path' = r.path
             /\ files' = r.files
             /\ IF TruthyPath(r.path)
                THEN /\ pc' = "inspect"
                     /\ UNCHANGED <<presLocals, current_latex, attempt, result, exit_line>>
                ELSE PresAfterPage(all_analyses, improvement_suggestions, slides_analyzed)
    /\ UNCHANGED <<config, planned, pending, pdf_path, last_inspection, trail>>

(* the critic asks for the analysis completion unless it has returned before *)
Pres_analysis_asked(image_exists, read_ok) ==
    analyze_presentation_layout(image_exists, read_ok,
                                NoCompletionInput, NoCompletionInput).analysis_calls > 0

(* the critic asks for the completion of the fixes once the analysis has answered a *)
Pres_repair_asked(p, a) ==
    analyze_presentation_layout(p.image_exists, p.read_ok, a,
                                NoCompletionInput).repair_calls > 0

(* the critic has returned i: the rest of the loop body *)
PresRecord(i) ==
    /\ last_inspection' = i
    /\ pending' = NoPending
    /\ PresAfterPage(
           Append(all_analyses,
                  [page_num |-> page_num, is_good |-> i.fits, analysis |-> i.message]),
           IF Truthy(i.fixed) /\ ~i.fits
           THEN Append(improvement_suggestions, i.fixed.text)
           ELSE improvement_suggestions,
           slides_analyzed + 1)

(* the critic is suspended at client.chat.completions.create: the session
   keeps its locals until the provider answers *)
PresSuspend(at, p) ==
    /\ pc' = at
    /\ pending' = p
    /\ UNCHANGED <<presLocals, current_latex, attempt, result, exit_line, last_inspection>>

(* analyze_presentation_layout is entered: the bitmap is read and the analysis
   asked for; without a key get_client raises before anything is awaited *)
PresInspect ==
    /\ kind = "presentation"
    /\ pc = "inspect"
    /\ \E read_ok \in BOOLEAN, key \in BOOLEAN :
         LET image_exists == Exists(files, image_path)
             i == analyze_presentation_layout(image_exists, read_ok,
                                              NoCompletionInput, NoCompletionInput)
         IN  IF Pres_analysis_asked(image_exists, read_ok) /\ key
             THEN PresSuspend("analysis",
                              [NoPending EXCEPT !.image_exists = image_exists,
                                                !.read_ok = read_ok])
             ELSE PresRecord(i)
    /\ UNCHANGED <<config, planned, pdf_path, image_path, files, trail>>

(* the analysis completion answers: the verdict, and the fixes asked for if poor *)
PresVerdict ==
    /\ kind = "presentation"
    /\ pc = "analysis"
    /\ \E answer \in ProviderAnswers(PresAnalysisTexts), key \in BOOLEAN :
         LET a == Answered(answer)
             i == analyze_presentation_layout(pending.image_exists, pending.read_ok,
                                              a, NoCompletionInput)
         IN  IF Pres_repair_asked(pending, a) /\ key
             THEN PresSuspend("repair", [pending EXCEPT !.a = a])
             ELSE PresRecord(i)
    /\ UNCHANGED <<config, planned, pdf_path, image_path, files, trail>>

(* the completion of _generate_layout_fixes answers: the critic returns its triple *)
PresRepair ==
    /\ kind = "presentation"
    /\ pc = "repair"
    /\ \E answer \in ProviderAnswers(RepairTexts) :
         LET i == analyze_presentation_layout(pending.image_exists, pending.read_ok,
                                              pending.a, Answered(answer))
         IN  PresRecord(i)
    /\ UNCHANGED <<config, planned, pdf_path, image_path, files, trail>>

(* the session from its first compile call on *)
PresSession ==
    \/ PresCompile
    \/ PresRasterize
    \/ PresInspect
    \/ PresVerdict
    \/ PresRepair

PresNext == PresProcess \/ PresVariant \/ PresDiagram \/ PresDraft \/ PresSession

Next == PosterNext \/ PresNext

Spec == Init /\ [][Next]_vars

(* plan.total_slides of the decks presented: none, one slide, and a deck of
   eight, of which the slide loop samples four *)
PresSlideCounts == {0, 1, 8}

(* answers of the planner for those decks: plans that name total_slides, a
   plan that leaves it to max_slides, and an answer no plan can be parsed
   out of, which gives the fallback plan *)
DeckPlanTexts ==
    {PlanText(TRUE, TRUE, n, 0) : n \in PresSlideCounts \ {8}}
        \cup {PlanText(TRUE, FALSE, 0, 1), PlanText(FALSE, FALSE, 0, 0)}

DeckRequests == {8}

PresInit ==
    /\ kind = "presentation"
    /\ max_fix_attempts = 2
    /\ max_iterations \in 0..MaxIter
    /\ SessionIdle
    /\ templates = <<>>
    /\ fn = FnIdle
    /\ ServicesIdle

(* process() called for a deck *)
PresDeckProcess ==
    /\ pc = "start"
    /\ PresPlan(DeckPlanTexts, DeckRequests)
    /\ UNCHANGED templates

PresDeckNext == PresDeckProcess \/ PresDiagram \/ PresDraft \/ PresSession

PresSpec == PresInit /\ [][PresDeckNext]_vars

(* the poster sessions of Spec, where every awaited call returns: a poster
   coroutine that can step eventually steps *)
PosterInit == Init /\ kind = "poster"

FairSpec == PosterInit /\ [][PosterNext]_vars /\ WF_vars(PosterNext)

(* ---------------------------------------------------------------------- *)
(* Single calls of _clean_latex_code and of the two Layout Critics         *)
(* ---------------------------------------------------------------------- *)
FnAlphabet == {"bt", "latex", "dc", "bd", "ed", "nl", "x"}

Texts(n) == UNION {[1..k -> FnAlphabet] : k \in 0..n}

(* answers of the analysis completion: those of the sessions, the empty
   text, and phrasings that vary the case of the two marks the poster
   critic looks for ("No", "thing" reads "Nothing") *)
FnAnalysisTexts ==
    AnalysisTexts \cup PresAnalysisTexts
        \cup {<<>>, <<"no", "fits properly">>, <<"NO", "Fits Properly">>,
              <<"NO", "overflow">>, <<"No", "thing", "fits properly">>,
              <<"yes", "Fits Properly">>}

CleanTasks ==
    {[FnIdle EXCEPT !.op = o, !.input = t] :
        o \in {"poster_clean", "pres_clean"}, t \in Texts(MaxLen)}

CriticTasks ==
    {[FnIdle EXCEPT !.op = o, !.image_exists = e, !.read_ok = k, !.a = a, !.r = r] :
        o \in {"poster_critic", "pres_critic"}, e \in BOOLEAN, k \in BOOLEAN,
        a \in CompletionInputs(FnAnalysisTexts), r \in CompletionInputs(RepairTexts)}

(* page lists handed to convert_multiple_pages: one page, pages out of order,
   a page named twice, pages beyond the sixth *)
PageLists == {<<1>>, <<2, 1>>, <<3, 3>>, <<7, 8>>}

ConvertTasks ==
    {[FnIdle EXCEPT !.op = "convert_multiple", !.pdf_exists = e,
                    !.page_numbers = l, !.conv_ok = k] :
        e \in BOOLEAN, l \in PageLists, k \in [1..2 -> BOOLEAN]}

FnInit ==
    /\ kind = "function"
    /\ max_fix_attempts = 2
    /\ max_iterations = 1
    /\ SessionIdle
    /\ templates = <<>>
    /\ fn \in CleanTasks \cup CriticTasks \cup ConvertTasks
    /\ ServicesIdle

FnSession ==
    <<kind, pc, max_fix_attempts, max_iterations, total_slides, current_latex,
      attempt, pdf_path, image_path, page_num, all_analyses,
      improvement_suggestions, slides_analyzed, files, result, exit_line,
      last_inspection, trail, settings, social, sessions, pending, descriptions, templates>>

(* the value to clean: the argument, then what the previous call returned *)
FnArgument == IF fn.outs = <<>> THEN fn.input ELSE fn.outs[Len(fn.outs)]

(* PosterGeneratorAgent._clean_latex_code(latex_code) *)
FnPosterClean ==
    /\ kind = "function"
    /\ fn.op = "poster_clean"
    /\ Len(fn.outs) < MaxApplications
    /\ fn' = [fn EXCEPT !.outs = Append(@, Poster_clean_latex_code(FnArgument))]
    /\ UNCHANGED FnSession

(* PresentationGeneratorAgent._clean_latex_code(latex_code) *)
FnPresClean ==
    /\ kind = "function"
    /\ fn.op = "pres_clean"
    /\ Len(fn.outs) < MaxApplications
    /\ fn' = [fn EXCEPT !.outs = Append(@, Pres_clean_latex_code(FnArgument))]
    /\ UNCHANGED FnSession

(* the critic returns to its caller *)
FnReturn(inspection, asked) ==
    fn' = [fn EXCEPT !.inspection = inspection, !.asked = asked,
                     !.stage = "returned", !.done = TRUE]

(* the critic is suspended at client.chat.completions.create *)
FnSuspend(at, asked) == fn' = [fn EXCEPT !.stage = at, !.asked = asked]

(* PosterLayoutAnalyzerAgent.analyze_poster_layout(image_path, latex_code):
   the bitmap is read and the analysis asked for; fn.a.key tells whether
   get_client finds the key, fn.a.provider what the provider will answer *)
FnPosterCritic ==
    /\ kind = "function"
    /\ fn.op = "poster_critic"
    /\ fn.stage = "entry"
    /\ IF Poster_analysis_asked(fn.image_exists, fn.read_ok) /\ fn.a.key
       THEN FnSuspend("analysis", 1)
       ELSE FnReturn(analyze_poster_layout(fn.image_exists, fn.read_ok, fn.a, fn.r), 0)
    /\ UNCHANGED FnSession

(* the analysis completion answers: the verdict, and the fix asked for if unfit *)
FnPosterVerdict ==
    /\ kind = "function"
    /\ fn.op = "poster_critic"
    /\ fn.stage = "analysis"
    /\ IF Poster_repair_asked(fn, fn.a) /\ fn.r.key
       THEN FnSuspend("repair", 2)
       ELSE FnReturn(analyze_poster_layout(fn.image_exists, fn.read_ok, fn.a, fn.r), 1)
    /\ UNCHANGED FnSession

(* the completion of _generate_fixed_latex answers *)
FnPosterRepair ==
    /\ kind = "function"
    /\ fn.op = "poster_critic"
    /\ fn.stage = "repair"
    /\ FnReturn(analyze_poster_layout(fn.image_exists, fn.read_ok, fn.a, fn.r), 2)
    /\ UNCHANGED FnSession

(* PresentationVisualAnalyzerAgent.analyze_presentation_layout(..): the
   bitmap is read and the analysis asked for *)
FnPresCritic ==
    /\ kind = "function"
    /\ fn.op = "pres_critic"
    /\ fn.stage = "entry"
    /\ IF Pres_analysis_asked(fn.image_exists, fn.read_ok) /\ fn.a.key
       THEN FnSuspend("analysis", 1)
       ELSE FnReturn(analyze_presentation_layout(fn.image_exists, fn.read_ok, fn.a, fn.r), 0)
    /\ UNCHANGED FnSession

(* the analysis completion answers: the verdict, and the fixes asked for if poor *)
FnPresVerdict ==
    /\ kind = "function"
    /\ fn.op = "pres_critic"
    /\ fn.stage = "analysis"
    /\ IF Pres_repair_asked(fn, fn.a) /\ fn.r.key
       THEN FnSuspend("repair", 2)
       ELSE FnReturn(analyze_presentation_layout(fn.image_exists, fn.read_ok, fn.a, fn.r), 1)
    /\ UNCHANGED FnSession

(* the completion of _generate_layout_fixes answers *)
FnPresRepair ==
    /\ kind = "function"
    /\ fn.op = "pres_critic"
    /\ fn.stage = "repair"
    /\ FnReturn(analyze_presentation_layout(fn.image_exists, fn.read_ok, fn.a, fn.r), 2)
    /\ UNCHANGED FnSession

(* PresentationPDFToImageService.convert_multiple_pages(pdf_path, page_numbers) *)
FnConvertMultiple ==
    /\ kind = "function"
    /\ fn.op = "convert_multiple"
    /\ ~fn.done
    /\ LET fs == IF fn.pdf_exists THEN [files EXCEPT ![PresPdf] = FileOf(DraftPlain, "")]
                 ELSE files
           c == convert_multiple_pages(fs, PresPdf, fn.page_numbers, fn.conv_ok)
       IN  fn' = [fn EXCEPT !.results = c.results,
                            !.written = {p \in Paths : Exists(c.files, p)},
                            !.done = TRUE]
    /\ UNCHANGED FnSession

FnNext ==
    \/ FnPosterClean
    \/ FnPresClean
    \/ FnPosterCritic
    \/ FnPosterVerdict
    \/ FnPosterRepair
    \/ FnPresCritic
    \/ FnPresVerdict
    \/ FnPresRepair
    \/ FnConvertMultiple

FnSpec == FnInit /\ [][FnNext]_vars

(* ---------------------------------------------------------------------- *)
(* Settings: environment defaults, runtime overrides, and their consumers  *)
(* ---------------------------------------------------------------------- *)
SettingValues == {"", " ", "uikey", " uikey ", "uikey2"}

EnvValues == {"", "envkey"}

(* str.strip on the values entered *)
StripValue(v) ==
    CASE v = " " -> ""
      [] v = " uikey " -> "uikey"
      [] OTHER -> v

(* Settings.get_value(key) *)
get_value(st, key) ==
    IF st.runtime_overrides[key].set THEN st.runtime_overrides[key].value
    ELSE st.defaults[key]

(* Settings.set_override(key, value) *)
set_override(st, key, value) ==
    IF value # "" /\ StripValue(value) # ""
    THEN [st EXCEPT !.runtime_overrides[key] = [set |-> TRUE, value |-> StripValue(value)]]
    ELSE IF st.runtime_overrides[key].set
    THEN [st EXCEPT !.runtime_overrides[key] = NoOverride]
    ELSE st

(* Settings.clear_overrides() *)
clear_overrides(st) == [st EXCEPT !.runtime_overrides = [k \in SettingKeys |-> NoOverride]]

(* settings.HEAVY_MODEL_API_KEY, settings.LIGHT_MODEL_API_KEY: the attribute
   _load_defaults assigned *)
read_setting(st, key) == st.defaults[key]

(* the key LLMService.get_client selects for a model type *)
ModelKeyOf(model_type) ==
    IF model_type = "heavy" THEN "HEAVY_MODEL_API_KEY" ELSE "LIGHT_MODEL_API_KEY"

ModelTypes == {"heavy", "light", "coding"}

ConfigInit ==
    /\ kind = "settings"
    /\ max_fix_attempts = 2
    /\ max_iterations = 1
    /\ SessionIdle
    /\ templates = <<>>
    /\ fn = FnIdle
    /\ settings \in {SettingsOf(d) : d \in [SettingKeys -> EnvValues]}
    /\ social = SocialIdle
    /\ sessions = SessionsIdle

ConfigFrame ==
    <<kind, pc, max_fix_attempts, max_iterations, total_slides, current_latex,
      attempt, pdf_path, image_path, page_num, all_analyses,
      improvement_suggestions, slides_analyzed, files, result, exit_line,
      last_inspection, trail, fn, social, sessions, pending, descriptions, templates>>

(* what is typed into a field of the configuration tab that update_api_keys
   never reads *)
UnreadValues == {"", "uikey"}

(* update_api_keys(heavy_model_key, light_model_key, coding_model_key,
   devto_key, mistral_key): the three overrides of lines 568-570, then the
   NameError of line 571, where image_gen_key is no name of the module; the
   calls of lines 572-574 and the status message are never reached *)
UpdateApiKeys ==
    /\ kind = "settings"
    /\ \E heavy_model_key \in SettingValues, light_model_key \in SettingValues,
          coding_model_key \in SettingValues, devto_key \in UnreadValues,
          mistral_key \in UnreadValues :
         LET heavy == set_override(settings, "HEAVY_MODEL_API_KEY", heavy_model_key)
             light == set_override(heavy, "LIGHT_MODEL_API_KEY", light_model_key)
             coding == set_override(light, "CODING_MODEL_API_KEY", coding_model_key)
         IN  settings' = [coding EXCEPT !.handler =
                 [name |-> "update_api_keys", raised_line |-> 571]]
    /\ UNCHANGED ConfigFrame

(* clear_api_keys: settings.clear_overrides() *)
ClearOverrides ==
    /\ kind = "settings"
    /\ settings' = [clear_overrides(settings) EXCEPT !.handler =
           [name |-> "clear_api_keys", raised_line |-> 0]]
    /\ UNCHANGED ConfigFrame

(* LLMService.get_client(model_type) *)
GetClient ==
    /\ kind = "settings"
    /\ \E model_type \in ModelTypes :
         LET api_key == read_setting(settings, ModelKeyOf(model_type))
         IN  settings' = [settings EXCEPT
                 !.used = [consumer |-> "llm", key |-> ModelKeyOf(model_type),
                           value |-> api_key, raised |-> api_key = ""],
                 !.handler = [name |-> "get_client",
                              raised_line |-> IF api_key = "" THEN 25 ELSE 0]]
    /\ UNCHANGED ConfigFrame

(* devto_service.publish_article(..): self.api_key, read in __init__ *)
PublishArticle ==
    /\ kind = "settings"
    /\ settings' = [settings EXCEPT
           !.used = [consumer |-> "devto", key |-> "DEVTO_API_KEY",
                     value |-> settings.devto_api_key, raised |-> FALSE],
           !.handler = [name |-> "publish_article", raised_line |-> 0]]
    /\ UNCHANGED ConfigFrame

ConfigNext == UpdateApiKeys \/ ClearOverrides \/ GetClient \/ PublishArticle

ConfigSpec == ConfigInit /\ [][ConfigNext]_vars

(* ---------------------------------------------------------------------- *)
(* ImageGenerationService.generate_all_social_images                        *)
(* ---------------------------------------------------------------------- *)
platforms == <<"linkedin", "twitter", "facebook", "instagram">>

PlatformSet == {platforms[i] : i \in 1..Len(platforms)}

(* outputs/images/<safe_title>_<platform>.png *)
SocialImagePath(platform) ==
    CASE platform = "linkedin" -> "outputs/images/T_linkedin.png"
      [] platform = "twitter" -> "outputs/images/T_twitter.png"
      [] platform = "facebook" -> "outputs/images/T_facebook.png"
      [] platform = "instagram" -> "outputs/images/T_instagram.png"

(* the call before its tasks are created *)
SocialCalled ==
    [phase |-> "called",
     status |-> [p \in PlatformSet |-> "none"],
     value |-> [p \in PlatformSet |-> NonePath],
     order |-> <<>>,
     images |-> <<>>,
     results |-> [p \in PlatformSet |-> "unset"]]

(* one task of generate_social_media_image resumed at the await it is     *)
(* suspended at: it goes on to its next await, or the except branch prints *)
(* and the task returns None                                               *)
SocialResume(platform, ok, next) ==
    IF ok
    THEN [social EXCEPT !.status[platform] = next]
    ELSE [social EXCEPT !.status[platform] = "failed",
                        !.value[platform] = NonePath,
                        !.order = Append(@, platform)]

(* a gather that hands the results over in the order the tasks finished *)
gather_as_completed(value, order) == [i \in 1..Len(platforms) |-> value[order[i]]]

(* asyncio.gather over the tasks, return_exceptions=True: results in task order *)
gather(value, order) == [i \in 1..Len(platforms) |-> value[platforms[i]]]

(* for platform, image_path in zip(platforms, images): results[platform] = .. *)
zip_results(images) ==
    [p \in PlatformSet |->
        LET i == CHOOSE j \in 1..Len(platforms) : platforms[j] = p
        IN  images[i]]

SocialInit ==
    /\ kind = "social"
    /\ max_fix_attempts = 2
    /\ max_iterations = 1
    /\ SessionIdle
    /\ templates = <<>>
    /\ fn = FnIdle
    /\ settings = SettingsIdle
    /\ social = SocialCalled
    /\ sessions = SessionsIdle

SocialFrame ==
    <<kind, pc, max_fix_attempts, max_iterations, total_slides, current_latex,
      attempt, pdf_path, image_path, page_num, all_analyses,
      improvement_suggestions, slides_analyzed, files, result, exit_line,
      last_inspection, trail, fn, settings, sessions, pending, descriptions, templates>>

(* tasks = [self.generate_social_media_image(analysis, platform) for ..]; *)
(* asyncio.gather wraps each coroutine in a task                           *)
SocialDispatch ==
    /\ kind = "social"
    /\ social.phase = "called"
    /\ social' = [social EXCEPT !.phase = "gathering",
                                !.status = [p \in PlatformSet |-> "created"]]
    /\ UNCHANGED SocialFrame

(* a task's first run, up to the completion request of                    *)
(* generate_image_prompt; get_client raises before it when the key is      *)
(* missing. The event loop starts the tasks in the order of `platforms`.   *)
SocialStart ==
    /\ kind = "social"
    /\ social.phase = "gathering"
    /\ \E i \in 1..Len(platforms), key \in BOOLEAN :
         /\ social.status[platforms[i]] = "created"
         /\ \A j \in 1..(i - 1) : social.status[platforms[j]] # "created"
         /\ social' = SocialResume(platforms[i], key, "prompting")
    /\ UNCHANGED SocialFrame

(* image_prompt = await self.generate_image_prompt(analysis, platform);   *)
(* with the prompt the task calls self.client.images.generate              *)
SocialPrompt ==
    /\ kind = "social"
    /\ social.phase = "gathering"
    /\ \E p \in PlatformSet, prompt_ok \in BOOLEAN :
         /\ social.status[p] = "prompting"
         /\ social' = SocialResume(p, prompt_ok, "generating")
    /\ UNCHANGED SocialFrame

(* response = await self.client.images.generate(..); the data is decoded  *)
(* and the task calls aiofiles.open(image_path, "wb")                      *)
SocialImage ==
    /\ kind = "social"
    /\ social.phase = "gathering"
    /\ \E p \in PlatformSet, image_ok \in BOOLEAN :
         /\ social.status[p] = "generating"
         /\ social' = SocialResume(p, image_ok, "opening")
    /\ UNCHANGED SocialFrame

(* async with aiofiles.open(image_path, "wb") as f: the file is open and  *)
(* the task calls f.write(image_data)                                      *)
SocialOpen ==
    /\ kind = "social"
    /\ social.phase = "gathering"
    /\ \E p \in PlatformSet, open_ok \in BOOLEAN :
         /\ social.status[p] = "opening"
         /\ social' = SocialResume(p, open_ok, "writing")
    /\ UNCHANGED SocialFrame

(* await f.write(image_data): either way the with block is left and the   *)
(* task waits for the file to be closed                                    *)
SocialWrite ==
    /\ kind = "social"
    /\ social.phase = "gathering"
    /\ \E p \in PlatformSet, write_ok \in BOOLEAN :
         /\ social.status[p] = "writing"
         /\ social' = [social EXCEPT
                          !.status[p] = IF write_ok THEN "closing" ELSE "unwinding"]
    /\ UNCHANGED SocialFrame

(* the file is closed; return str(image_path), or None when the write or  *)
(* the close raised                                                        *)
SocialClose ==
    /\ kind = "social"
    /\ social.phase = "gathering"
    /\ \E p \in PlatformSet, close_ok \in BOOLEAN :
         /\ social.status[p] \in {"closing", "unwinding"}
         /\ social' =
              IF close_ok /\ social.status[p] = "closing"
              THEN [social EXCEPT !.status[p] = "saved",
                                  !.value[p] = SocialImagePath(p),
                                  !.order = Append(@, p)]
              ELSE SocialResume(p, FALSE, "failed")
    /\ UNCHANGED SocialFrame

(* images = await asyncio.gather(..); the zip loop; return results *)
SocialGather ==
    /\ kind = "social"
    /\ social.phase = "gathering"
    /\ \A p \in PlatformSet : social.status[p] \in {"saved", "failed"}
    /\ social' = [social EXCEPT
                     !.phase = "returned",
                     !.images = gather(social.value, social.order),
                     !.results = zip_results(gather(social.value, social.order))]
    /\ UNCHANGED SocialFrame

SocialNext ==
    \/ SocialDispatch
    \/ SocialStart
    \/ SocialPrompt
    \/ SocialImage
    \/ SocialOpen
    \/ SocialWrite
    \/ SocialClose
    \/ SocialGather

SocialSpec == SocialInit /\ [][SocialNext]_vars

(* ---------------------------------------------------------------------- *)
(* Two poster sessions of one process, interleaved at their awaits         *)
(* ---------------------------------------------------------------------- *)
Titles == {"T", "T!", "U"}

(* "".join(c for c in title if c.isalnum() or c in (" ", "-", "_")).rstrip() *)
safe_title(title) == IF title = "T!" THEN "T" ELSE title

SafeTitles == {safe_title(t) : t \in Titles}

SessionIds == {1, 2}

(* the draft process() hands to each session, already normalised *)
DuoDraft(id) ==
    IF id = 1 THEN Poster_clean_latex_code(DraftPlain)
    ELSE Poster_clean_latex_code(DraftFenced)

DuoSession(id, title) ==
    [title |-> title, pc |-> "compile", current_latex |-> DuoDraft(id), attempt |-> 0,
     pdf_path |-> NonePath, image_path |-> NonePath,
     bitmap_doc |-> None, bitmap_for |-> None, pending |-> NoPending,
     artifact_doc |-> None, result |-> NotReturned]

(* the outputs/posters directory: for each safe title, the files named after it *)
DuoInit ==
    /\ kind = "duo"
    /\ max_fix_attempts = 2
    /\ max_iterations = 1
    /\ SessionIdle
    /\ templates = <<>>
    /\ fn = FnIdle
    /\ settings = SettingsIdle
    /\ social = SocialIdle
    /\ \E t1 \in {"T"}, t2 \in Titles :
         sessions = [of |-> [id \in SessionIds |-> DuoSession(id, IF id = 1 THEN t1 ELSE t2)],
                     outputs |-> [t \in SafeTitles |-> [p \in Paths |-> Absent]]]

DuoFrame ==
    <<kind, pc, max_fix_attempts, max_iterations, total_slides, current_latex,
      attempt, pdf_path, image_path, page_num, all_analyses,
      improvement_suggestions, slides_analyzed, files, result, exit_line,
      last_inspection, trail, fn, settings, social, pending, descriptions, templates>>

DuoReturn(me, fs) ==
    [me EXCEPT !.pc = "done",
               !.result = [returned |-> TRUE, artifact |-> me.pdf_path,
                           document |-> me.current_latex],
               !.artifact_doc = IF Exists(fs, me.pdf_path) THEN Some(fs[me.pdf_path].doc)
                                ELSE None]

(* the critic has returned i to the session me: what follows the await *)
DuoDecide(me, i, fs) ==
    LET back == [me EXCEPT !.pending = NoPending]
    IN  IF i.fits THEN DuoReturn(back, fs)
        ELSE IF Poster_apply_fix(i.fixed, me.attempt, max_fix_attempts)
        THEN [back EXCEPT
                 !.current_latex = Poster_clean_latex_code(i.fixed.text),
                 !.attempt = Poster_next_attempt(me.attempt),
                 !.pc = "compile"]
        ELSE DuoReturn(back, fs)

(* one pass of the loop body up to the first completion it waits for:
   _compile_latex, convert_pdf_to_image and _image_to_base64 await nothing
   that suspends, so no other session runs between them *)
DuoCycle ==
    /\ kind = "duo"
    /\ \E id \in SessionIds, o \in CompileOutcomes, conv_ok \in BOOLEAN,
          read_ok \in BOOLEAN, key \in BOOLEAN :
         LET me == sessions.of[id]
             dir == safe_title(me.title)
             c == Poster_compile_latex(sessions.outputs[dir], me.current_latex, o)
             r == convert_pdf_to_image(c.files, c.path, conv_ok)
             rendered == [me EXCEPT !.pdf_path = c.path, !.image_path = r.path]
             image_exists == Exists(r.files, r.path)
             i == analyze_poster_layout(image_exists, read_ok,
                                        NoCompletionInput, NoCompletionInput)
             looked == [rendered EXCEPT
                           !.bitmap_doc = Some(r.files[r.path].doc),
                           !.bitmap_for = Some(me.current_latex)]
         IN  /\ me.pc = "compile"
             /\ sessions' = [sessions EXCEPT
                    !.outputs[dir] = r.files,
                    !.of[id] =
                       IF ~TruthyPath(c.path) THEN DuoReturn(rendered, r.files)
                       ELSE IF Poster_image_missing(r.path) THEN DuoReturn(rendered, r.files)
                       ELSE IF ~Poster_analysis_asked(image_exists, read_ok)
                       THEN DuoDecide(rendered, i, r.files)
                       ELSE IF key
                       THEN [looked EXCEPT
                                !.pending = [NoPending EXCEPT !.image_exists = image_exists,
                                                              !.read_ok = read_ok],
                                !.pc = "analysis"]
                       ELSE DuoDecide(looked, i, r.files)]
    /\ UNCHANGED DuoFrame

(* the analysis completion answers: the verdict, and the repair asked for if unfit *)
DuoVerdict ==
    /\ kind = "duo"
    /\ \E id \in SessionIds, answer \in ProviderAnswers(AnalysisTexts), key \in BOOLEAN :
         LET me == sessions.of[id]
             fs == sessions.outputs[safe_title(me.title)]
             a == Answered(answer)
             i == analyze_poster_layout(me.pending.image_exists, me.pending.read_ok,
                                        a, NoCompletionInput)
         IN  /\ me.pc = "analysis"
             /\ sessions' = [sessions EXCEPT !.of[id] =
                    IF Poster_repair_asked(me.pending, a) /\ key
                    THEN [me EXCEPT !.pending.a = a, !.pc = "repair"]
                    ELSE DuoDecide(me, i, fs)]
    /\ UNCHANGED DuoFrame

(* the repair completion answers: the critic returns its triple *)
DuoRepair ==
    /\ kind = "duo"
    /\ \E id \in SessionIds, answer \in ProviderAnswers({RepairA}) :
         LET me == sessions.of[id]
             fs == sessions.outputs[safe_title(me.title)]
             i == analyze_poster_layout(me.pending.image_exists, me.pending.read_ok,
                                        me.pending.a, Answered(answer))
         IN  /\ me.pc = "repair"
             /\ sessions' = [sessions EXCEPT !.of[id] = DuoDecide(me, i, fs)]
    /\ UNCHANGED DuoFrame

DuoNext == DuoCycle \/ DuoVerdict \/ DuoRepair

DuoSpec == DuoInit /\ [][DuoNext]_vars

(* ---------------------------------------------------------------------- *)
(* Quantities read off the audit trail                                     *)
(* ---------------------------------------------------------------------- *)
Renders == Len(trail)

Terminated == pc \in {"done", "raised"}

PosterDone == kind = "poster" /\ pc = "done"

RenderOk(k) == trail[k].artifact \in {PosterPdf, PresPdf}

Unfit(k) == trail[k].inspected /\ ~trail[k].inspection.fits

UnfitWithSuggestion(k) == Unfit(k) /\ Truthy(trail[k].inspection.fixed)

ReturnedPairOf(k) ==
    result = [returned |-> TRUE, artifact |-> trail[k].artifact,
              document |-> trail[k].document]

RECURSIVE AnalysisCallsUpTo(_)
AnalysisCallsUpTo(k) ==
    IF k = 0 THEN 0 ELSE trail[k].inspection.analysis_calls + AnalysisCallsUpTo(k - 1)

RECURSIVE RepairCallsUpTo(_)
RepairCallsUpTo(k) ==
    IF k = 0 THEN 0 ELSE trail[k].inspection.repair_calls + RepairCallsUpTo(k - 1)

Inspections == Cardinality({k \in 1..Len(trail) : trail[k].inspected})

(* ---------------------------------------------------------------------- *)
(* C1: a poster session performs at most max_fix_attempts + 1 compile      *)
(* calls, whatever compile, rasterize and critic do, and it terminates.    *)
(* ---------------------------------------------------------------------- *)
C1_Termination ==
    /\ [](kind = "poster" => Renders <= max_fix_attempts + 1)
    /\ <>(kind = "poster" => Terminated)

C1_Witness ==
    /\ PosterDone
    /\ max_fix_attempts >= 2
    /\ Renders = max_fix_attempts + 1

(* ---------------------------------------------------------------------- *)
(* C2: when every compile and rasterization succeeds and every inspection  *)
(* is Unfit with a suggestion, the finished session has rendered exactly   *)
(* max_fix_attempts + 1 times, has adopted max_fix_attempts suggestions,   *)
(* and returns the document of the last render: the normalised suggestion  *)
(* adopted last, the final inspection's suggestion being dropped.          *)
(* ---------------------------------------------------------------------- *)
C2_Precondition ==
    /\ PosterDone
    /\ \A k \in 1..Len(trail) :
         RenderOk(k) /\ trail[k].raster = "ok" /\ UnfitWithSuggestion(k)

C2_BudgetRespected ==
    C2_Precondition =>
        /\ Renders = max_fix_attempts + 1
        /\ attempt = max_fix_attempts
        /\ \A k \in 1..Len(trail) : trail[k].attempt_index = k - 1
        /\ ReturnedPairOf(Renders)
        /\ \A k \in 2..Len(trail) :
             trail[k].document = Poster_clean_latex_code(trail[k - 1].inspection.fixed.text)

C2_Witness ==
    /\ C2_Precondition
    /\ max_fix_attempts >= 1
    /\ result.document = Poster_clean_latex_code(trail[Renders - 1].inspection.fixed.text)
    /\ result.document # Poster_clean_latex_code(trail[Renders].inspection.fixed.text)

(* ---------------------------------------------------------------------- *)
(* C3: when the first inspection is Fit the session is over after one      *)
(* render, one inspection with one analysis call and no repair call, and   *)
(* it returns the first artifact and the initial document.                 *)
(* ---------------------------------------------------------------------- *)
C3_FirstFit ==
    /\ kind = "poster"
    /\ Len(trail) >= 1
    /\ trail[1].inspected
    /\ trail[1].inspection.fits

C3_FitShortCircuits ==
    C3_FirstFit =>
        /\ pc = "done"
        /\ Renders = 1
        /\ Inspections = 1
        /\ AnalysisCallsUpTo(Renders) = 1
        /\ RepairCallsUpTo(Renders) = 0
        /\ trail[1].attempt_index = 0
        /\ ReturnedPairOf(1)

C3_Witness == C3_FirstFit /\ pc = "done" /\ result.artifact = PosterPdf

(* ---------------------------------------------------------------------- *)
(* C4: an Unfit inspection without a suggested repair ends the session at  *)
(* that attempt whatever budget is left: it is the last render, nothing    *)
(* follows it, and that attempt's artifact and document are returned.      *)
(* ---------------------------------------------------------------------- *)
C4_NoSuggestionAt(k) == Unfit(k) /\ trail[k].inspection.fixed = None

C4_NoSuggestionHalts ==
    kind = "poster" =>
        \A k \in 1..Len(trail) :
            C4_NoSuggestionAt(k) =>
                /\ k = Len(trail)
                /\ pc = "done"
                /\ exit_line = 265
                /\ attempt = trail[k].attempt_index
                /\ ReturnedPairOf(k)

C4_Witness ==
    /\ PosterDone
    /\ Len(trail) >= 2
    /\ C4_NoSuggestionAt(Len(trail))
    /\ trail[Len(trail)].attempt_index < max_fix_attempts

(* ---------------------------------------------------------------------- *)
(* C5: if the initial compile of a poster session produces no PDF, the     *)
(* fallback artifact is never rasterized and the Layout Critic is never    *)
(* invoked: the session is over after that one render.                     *)
(* ---------------------------------------------------------------------- *)
FirstRenderFailed == Len(trail) >= 1 /\ ~RenderOk(1)

C5_FallbackIsFinal ==
    (kind = "poster" /\ FirstRenderFailed) =>
        /\ Renders = 1
        /\ trail[1].raster # "ok"
        /\ ~trail[1].inspected
        /\ (pc = "done" => ReturnedPairOf(1))

(* ---------------------------------------------------------------------- *)
(* C6: in either variant, a session whose first render failed returns a    *)
(* fallback artifact, a non-empty handle, with the document.               *)
(* ---------------------------------------------------------------------- *)
C6_FallbackReturned ==
    (pc = "done" /\ FirstRenderFailed) =>
        /\ TruthyPath(result.artifact)
        /\ result.artifact \in {PosterHtml, PosterFailed}
        /\ result.document = trail[1].document

(* ---------------------------------------------------------------------- *)
(* C7: when a compile fails on a later cycle of a poster session, the      *)
(* session ends there and returns the artifact and the document of the     *)
(* last attempt that rendered, not a fallback and not the failed document. *)
(* ---------------------------------------------------------------------- *)
LaterRenderFailedAt(k) == k >= 2 /\ k <= Len(trail) /\ RenderOk(k - 1) /\ ~RenderOk(k)

C7_LastGoodReturned ==
    kind = "poster" =>
        \A k \in 1..Len(trail) :
            LaterRenderFailedAt(k) =>
                /\ k = Len(trail)
                /\ (pc = "done" => ReturnedPairOf(k - 1))

(* ---------------------------------------------------------------------- *)
(* C8: an inspection in which image encoding, the analysis call or the     *)
(* repair call failed is reported as Unfit, with an error rationale and    *)
(* without a suggested repair, by the poster and the presentation critic.  *)
(* ---------------------------------------------------------------------- *)
C8_CriticFailureConservative ==
    last_inspection.failed # "none" =>
        /\ ~last_inspection.fits
        /\ last_inspection.fixed = None
        /\ last_inspection.message # <<>>
        /\ (kind = "presentation" /\ all_analyses # <<>>
              => ~all_analyses[Len(all_analyses)].is_good)

C8_Witness ==
    /\ kind = "poster"
    /\ last_inspection.failed = "repair"
    /\ trail[Len(trail)].inspection = last_inspection

(* ---------------------------------------------------------------------- *)
(* C9: a failed rasterization ends the poster session at once: the critic  *)
(* is not invoked for that cycle and the current pair is returned.         *)
(* ---------------------------------------------------------------------- *)
C9_RasterFailureReturns ==
    kind = "poster" =>
        \A k \in 1..Len(trail) :
            trail[k].raster = "failed" =>
                /\ k = Len(trail)
                /\ pc = "done"
                /\ exit_line = 238
                /\ ~trail[k].inspected
                /\ ReturnedPairOf(k)

C9_Witness ==
    /\ PosterDone
    /\ Len(trail) >= 2
    /\ trail[Len(trail)].raster = "failed"
    /\ RenderOk(Len(trail))

(* ---------------------------------------------------------------------- *)
(* C10: why a finished poster session ended                                *)
(* ---------------------------------------------------------------------- *)
EndFit == trail # <<>> /\ trail[Len(trail)].inspected /\ trail[Len(trail)].inspection.fits

EndBudget == trail # <<>> /\ Unfit(Len(trail)) /\ attempt = max_fix_attempts

EndNoSuggestion == trail # <<>> /\ Unfit(Len(trail)) /\ ~Truthy(trail[Len(trail)].inspection.fixed)

EndRenderFailedNoFallback == trail # <<>> /\ trail[Len(trail)].artifact = PosterFailed

EndRasterFailed == trail # <<>> /\ trail[Len(trail)].raster = "failed"

(* C10 as claimed: a finished poster session ended because of Fit, an      *)
(* exhausted budget, Unfit without suggestion, or a failed render without  *)
(* fallback, and for no other reason.                                      *)
C10_FourReasons ==
    PosterDone =>
        \/ EndFit
        \/ EndBudget
        \/ EndNoSuggestion
        \/ EndRenderFailedNoFallback

(* C10 amended: a finished poster session ended at one of three returns:   *)
(* after a Fit inspection; after an Unfit inspection with the budget       *)
(* exhausted or no usable suggestion; or after a failed rasterization,     *)
(* which is also how a failed render without fallback ends.                *)
C10_Reasons ==
    PosterDone =>
        /\ exit_line \in {238, 255, 265}
        /\ exit_line = 255 <=> EndFit
        /\ exit_line = 265 <=> (EndBudget \/ EndNoSuggestion)
        /\ exit_line = 238 <=> EndRasterFailed
        /\ EndRenderFailedNoFallback => EndRasterFailed

C10_Witness ==
    /\ PosterDone
    /\ EndRasterFailed
    /\ RenderOk(Len(trail))
    /\ ~EndFit /\ ~EndBudget /\ ~EndNoSuggestion /\ ~EndRenderFailedNoFallback

(* ---------------------------------------------------------------------- *)
(* C11: a finished poster session returns the artifact and the document of *)
(* its last render, the artifact file having been made from the returned   *)
(* document, and nothing is rendered after the inspection that ended it.   *)
(* With max_fix_attempts = 2 and inspections (Unfit, A), (Unfit, B),       *)
(* (Unfit, no suggestion) it ends at attempt 2 after three renders and     *)
(* returns the document of B.                                              *)
(* ---------------------------------------------------------------------- *)
C11_Scenario ==
    /\ kind = "poster"
    /\ max_fix_attempts = 2
    /\ Len(trail) = 3
    /\ UnfitWithSuggestion(1)
    /\ UnfitWithSuggestion(2)
    /\ Unfit(3)
    /\ ~Truthy(trail[3].inspection.fixed)

C11_LastRenderReturned ==
    /\ PosterDone =>
         /\ ReturnedPairOf(Len(trail))
         /\ attempt = trail[Len(trail)].attempt_index
         /\ pdf_path = result.artifact
         /\ current_latex = result.document
         /\ Exists(files, result.artifact) =>
                files[result.artifact] = FileOf(result.document, "")
    /\ C11_Scenario =>
         /\ pc = "done"
         /\ attempt = 2
         /\ Renders = 3
         /\ result.artifact = trail[3].artifact
         /\ result.document = Poster_clean_latex_code(trail[2].inspection.fixed.text)

C11_Witness ==
    /\ C11_Scenario
    /\ pc = "done"
    /\ RenderOk(3)
    /\ trail[1].inspection.fixed # trail[2].inspection.fixed
    /\ files[result.artifact].doc = trail[3].document

(* ---------------------------------------------------------------------- *)
(* C12: the attempt index of a poster session starts at 0, never exceeds   *)
(* max_fix_attempts, is 0, 1, 2, .. at successive renders, and changes     *)
(* only by +1 and only in the step that adopts a suggested repair.         *)
(* ---------------------------------------------------------------------- *)
C12_Adoption ==
    /\ pc = "repair"
    /\ pc' = "compile"
    /\ ~last_inspection'.fits
    /\ Truthy(last_inspection'.fixed)
    /\ current_latex' = Poster_clean_latex_code(last_inspection'.fixed.text)

C12_MonotonicAttempts ==
    /\ [](kind = "poster" =>
            /\ attempt <= max_fix_attempts
            /\ (trail = <<>> => attempt = 0)
            /\ \A k \in 1..Len(trail) : trail[k].attempt_index = k - 1)
    /\ [][(kind = "poster" /\ attempt' # attempt) =>
            (attempt' = attempt + 1 /\ C12_Adoption)]_vars

C12_Witness ==
    /\ kind = "poster"
    /\ Len(trail) = 3
    /\ attempt = 2
    /\ trail[3].attempt_index = 2

(* ---------------------------------------------------------------------- *)
(* C13: when a cycle of a presentation session has sampled its pages and   *)
(* at least 7 in 10 of the pages sampled were judged Fit, the session is   *)
(* over at that cycle: it returns that cycle's artifact and document and   *)
(* adopts no suggestion, even when a sampled page was Unfit and came with  *)
(* a suggestion.                                                           *)
(* ---------------------------------------------------------------------- *)
C13_CycleJudged ==
    /\ kind = "presentation"
    /\ pc \in {"done", "compile"}
    /\ Len(trail) >= 1
    /\ RenderOk(Len(trail))
    /\ slides_analyzed > 0

C13_RatioMet == 10 * good_slides(all_analyses) >= 7 * slides_analyzed

C13_ThresholdEndsSession ==
    (C13_CycleJudged /\ C13_RatioMet) =>
        /\ pc = "done"
        /\ exit_line = 313
        /\ ReturnedPairOf(Len(trail))
        /\ attempt = trail[Len(trail)].attempt_index
        /\ current_latex = trail[Len(trail)].document

C13_Witness ==
    /\ C13_CycleJudged
    /\ C13_RatioMet
    /\ max_iterations = 2
    /\ attempt = 0
    /\ slides_analyzed = 4
    /\ good_slides(all_analyses) = 3
    /\ improvement_suggestions # <<>>
    /\ pc = "done"

(* ---------------------------------------------------------------------- *)
(* C14: in every cycle of a presentation session over a deck of n >= 1     *)
(* slides, the slide loop visits at least one page and at least half of    *)
(* the n pages, rounded up.                                                *)
(* ---------------------------------------------------------------------- *)
C14_CycleSampled ==
    /\ kind = "presentation"
    /\ total_slides >= 1
    /\ pc \in {"done", "compile"}
    /\ Len(trail) >= 1
    /\ RenderOk(Len(trail))

C14_HalfRoundedUp ==
    C14_CycleSampled =>
        /\ page_num >= 1
        /\ 2 * page_num >= total_slides
        /\ page_num = pages_to_analyze(total_slides)

(* ---------------------------------------------------------------------- *)
(* C15: with max_iterations = 1, a first cycle whose quality ratio is      *)
(* below 0.7 and which collected a suggestion ends with that cycle's last  *)
(* suggestion, normalised, adopted as the document, and the session goes   *)
(* on to render it.                                                        *)
(* ---------------------------------------------------------------------- *)
C15_FirstCyclePoor ==
    /\ kind = "presentation"
    /\ max_iterations = 1
    /\ pc \in {"done", "compile"}
    /\ Len(trail) = 1
    /\ RenderOk(1)
    /\ slides_analyzed > 0
    /\ 10 * good_slides(all_analyses) < 7 * slides_analyzed
    /\ improvement_suggestions # <<>>

C15_SuggestionAdopted ==
    C15_FirstCyclePoor =>
        /\ pc = "compile"
        /\ attempt = 1
        /\ current_latex =
             Pres_clean_latex_code(improvement_suggestions[Len(improvement_suggestions)])

(* ---------------------------------------------------------------------- *)
(* C16: a presentation session never raises once its first draft exists,   *)
(* whatever the budget and whatever render, rasterize and critic do: it    *)
(* ends by returning a pair, and it compiles at most once per cycle.       *)
(* ---------------------------------------------------------------------- *)
C16_SessionEntered ==
    /\ kind = "presentation"
    /\ pc \notin {"start", "diagrams", "draft"}
    /\ ~(pc = "raised" /\ exit_line \in {36, 42, 49})

C16_AlwaysReturnsPair ==
    C16_SessionEntered =>
        /\ pc # "raised"
        /\ pc = "done" => result.returned
        /\ Len(trail) <= attempt + 1

(* ---------------------------------------------------------------------- *)
(* C17: whatever a Layout Critic call returns, poster or presentation, a   *)
(* suggested repair comes only with an Unfit verdict: a Fit result carries *)
(* none, and no repair completion was requested to produce it.             *)
(* ---------------------------------------------------------------------- *)
C17_CriticReturned == fn.op \in {"poster_critic", "pres_critic"} /\ fn.done

C17_RepairOnlyIfUnfit ==
    C17_CriticReturned =>
        /\ fn.inspection.fits =>
             /\ fn.inspection.fixed = None
             /\ fn.inspection.repair_calls = 0
             /\ fn.asked <= 1
        /\ fn.inspection.fixed # None =>
             ~fn.inspection.fits /\ fn.inspection.repair_calls = 1

C17_Witness ==
    /\ C17_CriticReturned
    /\ fn.op = "poster_critic"
    /\ fn.inspection.fits
    /\ fn.inspection.analysis_calls = 1
    /\ fn.r.key
    /\ fn.r.provider = [kind |-> "content", text |-> RepairA]

(* ---------------------------------------------------------------------- *)
(* C18: whatever a Layout Critic call returns (Fit, Unfit or a failure of  *)
(* the critic), its rationale text is not empty, for every text the        *)
(* completion may answer with, the empty text included.                    *)
(* ---------------------------------------------------------------------- *)
C18_RationaleNonEmpty ==
    (fn.op \in {"poster_critic", "pres_critic"} /\ fn.done) =>
        fn.inspection.message # <<>>

(* ---------------------------------------------------------------------- *)
(* C19: _clean_latex_code, of the poster and of the presentation           *)
(* generator, is idempotent: cleaning what it returned returns the same    *)
(* text; and on markup that already has its document class, begin and end  *)
(* markers it adds no further one.                                         *)
(* ---------------------------------------------------------------------- *)
Count(s, t) == Cardinality({i \in 1..Len(s) : s[i] = t})

WellFormed(s) ==
    /\ Contains(s, <<"dc">>)
    /\ Contains(s, <<"bd">>)
    /\ Contains(s, <<"ed">>)

C19_Cleaned == fn.op \in {"poster_clean", "pres_clean"} /\ fn.outs # <<>>

C19_Idempotent ==
    C19_Cleaned =>
        /\ \A k \in 2..Len(fn.outs) : fn.outs[k] = fn.outs[1]
        /\ WellFormed(fn.input) =>
             \A t \in {"dc", "bd", "ed"} : Count(fn.outs[1], t) = Count(fn.input, t)

C19_Witness ==
    /\ C19_Cleaned
    /\ fn.op = "poster_clean"
    /\ Len(fn.outs) = 2
    /\ WellFormed(fn.input)
    /\ Contains(fn.input, FenceLatex) \/ IsSpace(fn.input[1])
    /\ fn.outs[1] # fn.input

(* ---------------------------------------------------------------------- *)
(* C20: what _clean_latex_code returns always has a document class, a      *)
(* document-begin and a document-end marker, and no code fence, whatever   *)
(* text it was given.                                                      *)
(* ---------------------------------------------------------------------- *)
C20_StructureEnsured ==
    (fn.op \in {"poster_clean", "pres_clean"} /\ fn.outs # <<>>) =>
        /\ Contains(fn.outs[1], <<"dc">>)
        /\ Contains(fn.outs[1], <<"bd">>)
        /\ Contains(fn.outs[1], <<"ed">>)
        /\ ~Contains(fn.outs[1], Fence)

(* ---------------------------------------------------------------------- *)
(* C21: within a session, a compile leaves the stored artifact of every    *)
(* earlier attempt as it was: no render overwrites or modifies the         *)
(* artifact an earlier attempt produced.                                   *)
(* ---------------------------------------------------------------------- *)
C21_EarlierArtifactsKept ==
    [][pc = "compile" =>
         \A k \in 1..Len(trail) :
             Exists(files, trail[k].artifact) =>
                 files'[trail[k].artifact] = files[trail[k].artifact]]_vars

(* ---------------------------------------------------------------------- *)
(* C24: a Layout Critic call whose analysis completion finds no API key    *)
(* configured does not come back with an inspection result: the            *)
(* configuration error leaves the critic and reaches its caller, it is not *)
(* turned into an Unfit verdict.                                           *)
(* ---------------------------------------------------------------------- *)
C24_KeyMissing ==
    /\ fn.op \in {"poster_critic", "pres_critic"}
    /\ fn.done
    /\ Truthy(image_to_base64(fn.image_exists, fn.read_ok))
    /\ get_client(fn.a.key).raised

C24_ConfigErrorReachesCaller == C24_KeyMissing => fn.inspection = NoInspection

(* ---------------------------------------------------------------------- *)
(* C25: the poster critic's verdict is Unfit exactly when the analysis     *)
(* response contains NO once upper-cased and contains the phrase           *)
(* "fits properly" in exactly that case; a response without that exact     *)
(* phrase is Fit whatever else it says, and no repair is requested.        *)
(* ---------------------------------------------------------------------- *)
C25_Analysed ==
    /\ fn.op = "poster_critic"
    /\ fn.done
    /\ Truthy(image_to_base64(fn.image_exists, fn.read_ok))
    /\ ~generate_completion(fn.a.key, fn.a.provider).raised

C25_SaysNo == \E i \in 1..Len(fn.a.provider.text) : fn.a.provider.text[i] \in {"NO", "No", "no"}

C25_HasPhrase == \E i \in 1..Len(fn.a.provider.text) : fn.a.provider.text[i] = "fits properly"

C25_VerdictRule ==
    C25_Analysed =>
        /\ ~fn.inspection.fits <=> (C25_SaysNo /\ C25_HasPhrase)
        /\ ~C25_HasPhrase =>
             /\ fn.inspection.fits
             /\ fn.inspection.fixed = None
             /\ fn.inspection.repair_calls = 0

C25_Witness ==
    /\ C25_Analysed
    /\ fn.a.provider.text = <<"NO", "Fits Properly">>
    /\ fn.inspection.fits
    /\ fn.inspection.message = <<"NO", "Fits Properly">>

(* ---------------------------------------------------------------------- *)
(* C27: every document a session hands to the compiler, the first draft    *)
(* and every adopted suggestion, is one _clean_latex_code returned: at     *)
(* every render it has a document class and a document-begin marker and    *)
(* no code fence.                                                          *)
(* ---------------------------------------------------------------------- *)
C27_RendersOnlyCleaned ==
    \A k \in 1..Len(trail) :
        /\ Contains(trail[k].document, <<"dc">>)
        /\ Contains(trail[k].document, <<"bd">>)
        /\ ~Contains(trail[k].document, Fence)
        /\ kind = "poster" => Poster_clean_latex_code(trail[k].document) = trail[k].document
        /\ kind = "presentation" => Pres_clean_latex_code(trail[k].document) = trail[k].document

C27_Witness ==
    /\ kind = "poster"
    /\ Len(trail) = 2
    /\ trail[1].inspection.fixed = Some(RepairB)
    /\ trail[2].document # RepairB
    /\ trail[2].document = Poster_clean_latex_code(RepairB)

(* ---------------------------------------------------------------------- *)
(* C28: in a poster session an Unfit inspection whose suggested repair is  *)
(* the empty text ends the session at that attempt like one without a      *)
(* suggestion, budget left or not: the attempt's artifact and document are *)
(* returned and the empty text is never adopted or rendered.               *)
(* ---------------------------------------------------------------------- *)
C28_EmptySuggestionAt(k) == Unfit(k) /\ trail[k].inspection.fixed = Some(<<>>)

C28_EmptySuggestionHalts ==
    kind = "poster" =>
        /\ \A k \in 1..Len(trail) :
             C28_EmptySuggestionAt(k) =>
                 /\ k = Len(trail)
                 /\ pc = "done"
                 /\ exit_line = 265
                 /\ attempt = trail[k].attempt_index
                 /\ current_latex = trail[k].document
                 /\ ReturnedPairOf(k)
        /\ \A k \in 1..Len(trail) :
             trail[k].document # Poster_clean_latex_code(<<>>)

C28_Witness ==
    /\ PosterDone
    /\ max_fix_attempts = 2
    /\ Len(trail) = 2
    /\ attempt = 1
    /\ C28_EmptySuggestionAt(2)
    /\ trail[2].inspection.repair_calls = 1

(* ---------------------------------------------------------------------- *)
(* C29: in a presentation session a sampled page that cannot be            *)
(* rasterized is not inspected and counts neither as good nor as analysed; *)
(* a cycle in which no page was rasterized (a deck of no slides included)  *)
(* computes no ratio and returns the current artifact and document.        *)
(* ---------------------------------------------------------------------- *)
C29_CycleOver ==
    /\ kind = "presentation"
    /\ pc \in {"done", "compile"}
    /\ Len(trail) >= 1
    /\ RenderOk(Len(trail))

C29_PageSkipped ==
    /\ kind = "presentation"
    /\ pc = "rasterize"
    /\ ~TruthyPath(image_path')

C29_Counted ==
    /\ slides_analyzed = Len(all_analyses)
    /\ good_slides(all_analyses) <= slides_analyzed
    /\ \A j \in 1..Len(all_analyses) :
         /\ Exists(files, PresSlideImage(all_analyses[j].page_num))
         /\ files[PresSlideImage(all_analyses[j].page_num)].doc = current_latex

C29_UnrasterizedExcluded ==
    /\ [](kind = "presentation" =>
            /\ (pc \in {"rasterize", "inspect", "analysis", "repair", "done"} /\ Len(trail) >= 1 /\ RenderOk(Len(trail)))
                 => C29_Counted
            /\ (C29_CycleOver /\ slides_analyzed = 0) =>
                 /\ pc = "done"
                 /\ exit_line = 300
                 /\ ReturnedPairOf(Len(trail))
                 /\ all_analyses = <<>>)
    /\ [][C29_PageSkipped =>
            /\ all_analyses' = all_analyses
            /\ slides_analyzed' = slides_analyzed
            /\ improvement_suggestions' = improvement_suggestions
            /\ last_inspection' = last_inspection
            /\ pc' # "inspect"]_vars

C29_Witness ==
    /\ C29_CycleOver
    /\ pc = "done"
    /\ total_slides = 4
    /\ Len(trail) = 1
    /\ slides_analyzed = 1
    /\ all_analyses[1].page_num = 2
    /\ ~Exists(files, PresSlideImage(1))

(* ---------------------------------------------------------------------- *)
(* C30: in a poster session there are never more inspections than renders, *)
(* and the repair completion calls are as many as the Unfit verdicts, so   *)
(* at most one more than the repairs adopted.                              *)
(* ---------------------------------------------------------------------- *)
UnfitVerdicts == Cardinality({k \in 1..Len(trail) : Unfit(k)})

(* Unfit verdicts the analysis response itself led to, as opposed to the   *)
(* Unfit a critic reports when it could not read the image or the          *)
(* analysis completion failed                                              *)
UnfitByAnalysis ==
    Cardinality({k \in 1..Len(trail) :
                    Unfit(k) /\ trail[k].inspection.failed \in {"none", "repair"}})

C30_CallsEqualUnfit ==
    kind = "poster" =>
        /\ Inspections <= Renders
        /\ RepairCallsUpTo(Len(trail)) = UnfitVerdicts
        /\ RepairCallsUpTo(Len(trail)) <= attempt + 1

(* C30, amended: the repair completion calls are as many as the Unfit      *)
(* verdicts that the analysis response led to; a critic failure is Unfit   *)
(* without a repair call. They are never fewer than the repairs adopted    *)
(* and at most one more, the one more being a call whose result is dropped *)
(* when the session ends, as on the cycle at attempt = max_fix_attempts.   *)
C30_CallCounts ==
    kind = "poster" =>
        /\ Inspections <= Renders
        /\ RepairCallsUpTo(Len(trail)) = UnfitByAnalysis
        /\ RepairCallsUpTo(Len(trail)) <= UnfitVerdicts
        /\ attempt <= RepairCallsUpTo(Len(trail))
        /\ RepairCallsUpTo(Len(trail)) <= attempt + 1
        /\ (pc = "done" /\ attempt = max_fix_attempts /\ trail # <<>>
                /\ UnfitWithSuggestion(Len(trail))) =>
             /\ RepairCallsUpTo(Len(trail)) = attempt + 1
             /\ ReturnedPairOf(Len(trail))

C30_Witness ==
    /\ PosterDone
    /\ max_fix_attempts = 2
    /\ attempt = 2
    /\ UnfitWithSuggestion(Len(trail))
    /\ RepairCallsUpTo(Len(trail)) = 3
    /\ UnfitVerdicts = 3

(* ---------------------------------------------------------------------- *)
(* C23: after any sequence of set_override and clear_overrides calls, the  *)
(* credential a consumer uses for a key is the key's runtime override when *)
(* one is set and the environment default otherwise; a blank value removes *)
(* that key's override only, and clear_overrides removes them all.         *)
(* ---------------------------------------------------------------------- *)
C23_ConsumerStep == settings'.handler.name \in {"get_client", "publish_article"}

C23_SetStep == settings'.handler.name = "update_api_keys"

C23_ClearStep == settings'.handler.name = "clear_api_keys"

(* the keys update_api_keys has called set_override for when it raises *)
C23_KeysSet == {"HEAVY_MODEL_API_KEY", "LIGHT_MODEL_API_KEY", "CODING_MODEL_API_KEY"}

C23_OverrideTakesPrecedence ==
    /\ [][C23_ConsumerStep =>
            /\ settings'.runtime_overrides = settings.runtime_overrides
            /\ settings'.used.value = get_value(settings, settings'.used.key)]_vars
    /\ [][C23_SetStep =>
            /\ \A k \in SettingKeys \ C23_KeysSet :
                 settings'.runtime_overrides[k] = settings.runtime_overrides[k]
            /\ \A k \in C23_KeysSet :
                 settings'.runtime_overrides[k].set =>
                     settings'.runtime_overrides[k].value \in {"uikey", "uikey2"}]_vars
    /\ [][C23_ClearStep =>
            \A k \in SettingKeys : ~settings'.runtime_overrides[k].set]_vars

(* ---------------------------------------------------------------------- *)
(* C26: generate_all_social_images starts the four platform tasks          *)
(* together and, in whatever order they finish, returns under each         *)
(* platform the outcome of that platform's own task: the saved image path, *)
(* or None when that task failed, the other platforms being unaffected.    *)
(* ---------------------------------------------------------------------- *)
C26_ResultsByPlatform ==
    /\ social # SocialIdle =>
         /\ social.phase = "gathering" =>
              \A p \in PlatformSet : social.status[p] # "none"
         /\ social.phase = "returned" =>
              \A p \in PlatformSet :
                  /\ social.status[p] = "saved" => social.results[p] = SocialImagePath(p)
                  /\ social.status[p] = "failed" => social.results[p] = NonePath
                  /\ social.status[p] \in {"saved", "failed"}

C26_Witness ==
    /\ social # SocialIdle
    /\ social.phase = "returned"
    /\ social.order[1] = "instagram"
    /\ social.order[4] = "linkedin"
    /\ social.status["twitter"] = "failed"
    /\ social.status["linkedin"] = "saved"
    /\ social.status["instagram"] = "saved"
    /\ social.results["twitter"] = NonePath

(* ---------------------------------------------------------------------- *)
(* C22: two poster sessions interleaved at their awaits, also when both    *)
(* papers have the same title, do not see each other: the bitmap a session *)
(* inspects was rendered from its own current document, and so was the     *)
(* artifact it returns.                                                    *)
(* ---------------------------------------------------------------------- *)
C22_SessionsIsolated ==
    sessions # SessionsIdle =>
        \A id \in SessionIds :
            /\ sessions.of[id].bitmap_doc = sessions.of[id].bitmap_for
            /\ (sessions.of[id].pc = "done" /\ sessions.of[id].artifact_doc # None) =>
                 sessions.of[id].artifact_doc = Some(sessions.of[id].result.document)

====
